---- MODULE Spec2Model ----
(***************************************************************************)
(* Rug-pull scoring: the tiered inference engine (ml/predict.py,           *)
(* ml/predict_ultimate.py) and the stacked training loop                   *)
(* (ml/train_ultimate_2025.py).                                            *)
(*                                                                         *)
(* Representation.  A feature mapping is a function whose DOMAIN is the    *)
(* set of keys present, so dict.get(k, d) is Get(f, k, d).  Probabilities  *)
(* are exact integers in thousandths (500 is 0.5); a Python float quotient *)
(* a / b is kept as the pair <<a, b>>.  An operator that can raise returns *)
(* [status |-> "raised", exc |-> ...] instead of a value.                  *)
(***************************************************************************)
EXTENDS Integers, Sequences, FiniteSets, TLC

VARIABLES
    disk,       \* artifact file name -> "missing" | "ok" | "corrupt"
    model,      \* predict.py module-level model: "loaded" | "None"
    ensemble,   \* predict_ultimate.py module-level ensemble
    features,   \* the RawTokenFeatures mapping of the request being served
    ret,        \* the outcome of the last call
    seen,       \* what the first call of the serving transform on `features` gave
    proc,       \* a command-line run: script, argv[2], position, streams, exit status
    objects,    \* the objects the engine unpickled: fold_models, meta_learner
    store,      \* artifact file name -> the training run that wrote it
    pc,            \* train_ultimate_2025.main: the statement to run next
    fold,          \* ... the fold being trained, 1..NumFolds
    folds,         \* ... what cv.split(X, y) yields: (train_idx, val_idx) per fold
    heap,          \* ... learner objects: id -> fitted state
    meta_models,   \* ... learner type -> list of object ids
    meta_features, \* ... row -> learner type -> cell
    meta_learner,  \* ... the combiner
    dataset,       \* ... the CSV files found and the columns of their concatenation
    raised,        \* ... the exception that ended main, "none" while it runs
    run,           \* ... the number of this training run, 0 when none
    at,            \* the fold bodies run as tasks: fold -> the statement to run next
    data_dir,      \* ml/data: CSV file name -> its rows
    frame          \* the frame a training script loaded: its rows

servingVars == <<disk, model, ensemble, features, ret, seen, proc, objects, store>>

trainVars == <<pc, fold, folds, heap, meta_models, meta_features, meta_learner,
               dataset, raised, run, at, data_dir, frame>>

vars == <<disk, model, ensemble, features, ret, seen, proc, objects, store,
          pc, fold, folds, heap, meta_models, meta_features, meta_learner,
          dataset, raised, run, at, data_dir, frame>>

\* ------------------------------------------------------------------------
\* dict access and numeric helpers
\* ------------------------------------------------------------------------

Get(f, k, d) == IF k \in DOMAIN f THEN f[k] ELSE d

\* a key that may be absent: the empty mapping or a one-key mapping
Opt(k, D) == {<<>>} \cup {k :> v : v \in D}

Returned(v) == [status |-> "returned", value |-> v]

Raised(e) == [status |-> "raised", exc |-> e]

Min(a, b) == IF a < b THEN a ELSE b

Max(a, b) == IF a > b THEN a ELSE b

\* Python's round(n / d) for n >= 0, d > 0: to nearest, ties to the even integer
PyRound(n, d) ==
    LET q == n \div d
        r == n % d
    IN  IF 2 * r < d THEN q
        ELSE IF 2 * r > d THEN q + 1
        ELSE IF q % 2 = 0 THEN q ELSE q + 1

\* Python's a / b on numbers
Div(a, b) == IF b = 0 THEN "ZeroDivisionError" ELSE <<a, b>>

\* ------------------------------------------------------------------------
\* predict.py: the 4-band table and the rule-based fallback scorer
\* ------------------------------------------------------------------------

\* the 4-band table with its top band opened at 85
Level4From85(score) ==
    IF score >= 85 THEN "LOW"
    ELSE IF score >= 70 THEN "MEDIUM"
    ELSE IF score >= 40 THEN "HIGH"
    ELSE "EXTREME"

Level4(score) ==
    IF score >= 90 THEN "LOW"
    ELSE IF score >= 70 THEN "MEDIUM"
    ELSE IF score >= 40 THEN "HIGH"
    ELSE "EXTREME"

\* mutant: the burn test with <= in place of <
FallbackRawScoreLe(f) ==
    100
    - (IF Get(f, "mint_authority", "None") # "None" THEN 20 ELSE 0)
    - (IF Get(f, "freeze_authority", "None") # "None" THEN 20 ELSE 0)
    - (IF Get(f, "honeypot", FALSE) THEN 30 ELSE 0)
    - (IF Get(f, "buy_tax", 0) > 5 \/ Get(f, "sell_tax", 0) > 5 THEN 15 ELSE 0)
    - (IF Get(f, "top10_pct", 0) > 50 THEN 10 ELSE 0)
    - (IF 10 * Get(f, "lp_burned", 0) <= 9 * Get(f, "total_supply", 1) THEN 10 ELSE 0)

\* the scorer with a bonus of 5 for a burned pool
FallbackRawScoreBonus(f) ==
    100
    - (IF Get(f, "mint_authority", "None") # "None" THEN 20 ELSE 0)
    - (IF Get(f, "freeze_authority", "None") # "None" THEN 20 ELSE 0)
    - (IF Get(f, "honeypot", FALSE) THEN 30 ELSE 0)
    - (IF Get(f, "buy_tax", 0) > 5 \/ Get(f, "sell_tax", 0) > 5 THEN 15 ELSE 0)
    - (IF Get(f, "top10_pct", 0) > 50 THEN 10 ELSE 0)
    + (IF 10 * Get(f, "lp_burned", 0) < 9 * Get(f, "total_supply", 1) THEN -10 ELSE 5)

\* the score before the clamp of line 110
FallbackRawScore(f) ==
    LET s0 == 100
        s1 == IF Get(f, "mint_authority", "None") # "None" THEN s0 - 20 ELSE s0
        s2 == IF Get(f, "freeze_authority", "None") # "None" THEN s1 - 20 ELSE s1
        s3 == IF Get(f, "honeypot", FALSE) THEN s2 - 30 ELSE s2
        s4 == IF Get(f, "buy_tax", 0) > 5 \/ Get(f, "sell_tax", 0) > 5
              THEN s3 - 15 ELSE s3
        s5 == IF Get(f, "top10_pct", 0) > 50 THEN s4 - 10 ELSE s4
        \* lp_burned < total_supply * 0.9, in tenths
        s6 == IF 10 * Get(f, "lp_burned", 0) < 9 * Get(f, "total_supply", 1)
              THEN s5 - 10 ELSE s5
    IN  s6

\* mutant: the probability taken from the score before the clamp
fallback_scoring_unclamped(f) ==
    LET raw   == FallbackRawScore(f)
        score == Max(0, Min(100, raw))
    IN  <<score, Level4(score), 1000 - 10 * raw>>

fallback_scoring(f) ==
    LET score == Max(0, Min(100, FallbackRawScore(f)))
        rug_prob == 1000 - 10 * score
    IN  <<score, Level4(score), rug_prob>>

\* ------------------------------------------------------------------------
\* predict.py: feature transform, model path, risk factors
\* ------------------------------------------------------------------------

\* the 20 columns of lines 29-48 (and predict_ultimate.py 102-121), in order
FeatureVector(f) ==
    <<  IF Get(f, "mint_authority", "None") = "None" THEN 1 ELSE 0,
        IF Get(f, "freeze_authority", "None") = "None" THEN 1 ELSE 0,
        Div(Get(f, "lp_burned", 0), Get(f, "total_supply", 1) + 1),
        IF Get(f, "honeypot", FALSE) THEN 1 ELSE 0,
        Get(f, "buy_tax", 0),
        Get(f, "sell_tax", 0),
        Get(f, "holders_after_filter", Get(f, "holders", 0)),
        Get(f, "top10_pct", 0),
        Get(f, "sniper_wallets_pct", 0),
        Get(f, "dev_bought_pct", 0),
        Get(f, "jito_bundle_clusters", 0),
        Div(Get(f, "market_cap", 0), Get(f, "liquidity", 1) + 1),
        Get(f, "slippage_10k", 0),
        Div(Get(f, "vol_5m", 0), Get(f, "vol_1m", 1) + 1),
        Get(f, "price_change_5m", 0),
        Get(f, "kde_floor", 0),
        Get(f, "avg_buy_price", 0),
        Get(f, "hours_post_migration", 0),
        IF Get(f, "jito_bundle", FALSE) THEN 1 ELSE 0,
        Get(f, "gnn_cluster_prob", 0) >>

\* a zero denominator raises while the column dict is being built, before
\* the replace([inf, -inf], 0).fillna(0) of line 52 is reached
engineer_features_for_prediction(f) ==
    IF \/ Get(f, "total_supply", 1) + 1 = 0
       \/ Get(f, "liquidity", 1) + 1 = 0
       \/ Get(f, "vol_1m", 1) + 1 = 0
    THEN Raised("ZeroDivisionError")
    ELSE Returned(FeatureVector(f))

\* int((1 - rug_prob) * 100): truncation
ScoreOfProb(p) == ((1000 - p) * 100) \div 1000

\* predict.predict_rug_score; p is what model.predict_proba answers
predict_rug_score(m, f, p) ==
    IF m = "None"
    THEN Returned(fallback_scoring(f))
    ELSE LET df == engineer_features_for_prediction(f)
         IN  IF df.status = "raised" THEN df
             ELSE LET score == ScoreOfProb(p)
                  IN  Returned(<<score, Level4(score), p>>)

\* the list `risks` of predict.get_risk_factors before the slice of line 153
BasicRisks(f) ==
    (IF Get(f, "mint_authority", "None") # "None"
     THEN << <<"Mint authority not revoked">> >> ELSE <<>>)
    \o (IF Get(f, "freeze_authority", "None") # "None"
        THEN << <<"Freeze authority not revoked">> >> ELSE <<>>)
    \o (IF Get(f, "honeypot", FALSE)
        THEN << <<"Honeypot detected">> >> ELSE <<>>)
    \o (IF Get(f, "buy_tax", 0) > 5
        THEN << <<"High buy tax", f["buy_tax"]>> >> ELSE <<>>)
    \o (IF Get(f, "sell_tax", 0) > 5
        THEN << <<"High sell tax", f["sell_tax"]>> >> ELSE <<>>)
    \o (IF Get(f, "top10_pct", 0) > 50
        THEN << <<"High concentration", f["top10_pct"]>> >> ELSE <<>>)
    \o (IF Get(f, "jito_bundle_clusters", 0) > 3
        THEN << <<"Multiple Jito bundles detected", f["jito_bundle_clusters"]>> >>
        ELSE <<>>)
    \o (IF 2 * Get(f, "lp_burned", 0) < Get(f, "total_supply", 1)
        THEN << <<"Low LP burn percentage">> >> ELSE <<>>)

\* mutant: the list returned without the slice
TakeAll(s) == s

\* risks[:5]
Take5(s) == SubSeq(s, 1, Min(5, Len(s)))

get_risk_factors(f) == Take5(BasicRisks(f))

\* ------------------------------------------------------------------------
\* predict_ultimate.py: the model registry
\* ------------------------------------------------------------------------

Artifacts ==
    {"fold_models.pkl", "meta_learner.pkl", "tabnet_model", "gnn_model.pth",
     "xgboost_rug_model_latest.pkl", "pytorch_tabnet"}

\* predict.py lines 11-17: only FileNotFoundError is caught
LoadModule(d) ==
    CASE d["xgboost_rug_model_latest.pkl"] = "ok" -> "loaded"
      [] d["xgboost_rug_model_latest.pkl"] = "missing" -> "None"
      [] OTHER -> "ImportRaised"

\* load_models without the check of lines 93-94: an engine with no tier
load_models_unchecked(d) ==
    Returned([stacking |-> /\ d["fold_models.pkl"] = "ok"
                           /\ d["meta_learner.pkl"] = "ok",
              tabnet   |-> /\ d["pytorch_tabnet"] = "ok"
                           /\ d["tabnet_model"] = "ok",
              gnn      |-> FALSE,
              simple   |-> d["xgboost_rug_model_latest.pkl"] = "ok"])

\* UltimateEnsemble.load_models: the models_loaded dict, or the RuntimeError
load_models(d) ==
    LET stacking == /\ d["fold_models.pkl"] # "missing"
                    /\ d["meta_learner.pkl"] # "missing"
                    /\ d["fold_models.pkl"] = "ok"
                    /\ d["meta_learner.pkl"] = "ok"
        tabnet   == /\ d["pytorch_tabnet"] = "ok"
                    /\ d["tabnet_model"] # "missing"
                    /\ d["tabnet_model"] = "ok"
        gnn      == FALSE
        simple   == /\ d["xgboost_rug_model_latest.pkl"] # "missing"
                    /\ d["xgboost_rug_model_latest.pkl"] = "ok"
        loaded   == [stacking |-> stacking, tabnet |-> tabnet,
                     gnn |-> gnn, simple |-> simple]
    IN  IF ~(stacking \/ tabnet \/ gnn \/ simple)
        THEN Raised("RuntimeError")
        ELSE Returned(loaded)

\* lines 260-265: the module-level instance, None when construction raised
LoadEnsemble(d) ==
    LET made == load_models(d)
    IN  IF made.status = "raised"
        THEN [isNone |-> TRUE,
              models_loaded |-> [stacking |-> FALSE, tabnet |-> FALSE,
                                 gnn |-> FALSE, simple |-> FALSE]]
        ELSE [isNone |-> FALSE, models_loaded |-> made.value]

\* ------------------------------------------------------------------------
\* predict_ultimate.py: the inference engine
\* ------------------------------------------------------------------------

engineer_features(f) ==
    IF \/ Get(f, "total_supply", 1) + 1 = 0
       \/ Get(f, "liquidity", 1) + 1 = 0
       \/ Get(f, "vol_1m", 1) + 1 = 0
    THEN Raised("ZeroDivisionError")
    ELSE Returned(FeatureVector(f))

\* a selection that tries the simple baseline first
predict_proba_simple_first(loaded, f, p) ==
    LET X == engineer_features(f)
    IN  IF X.status = "raised" THEN X
        ELSE IF loaded.simple
             THEN Returned(<<p, "XGBoost (F1: 0.95+)">>)
        ELSE IF loaded.stacking
             THEN Returned(<<p, "Stacking Ensemble (F1: 0.968+)">>)
        ELSE IF loaded.tabnet
             THEN Returned(<<p, "TabNet (F1: 0.979+)">>)
        ELSE Returned(<<500, "No model available">>)

\* p is what the selected tier's model answers for the engineered row
predict_proba(loaded, f, p) ==
    LET X == engineer_features(f)
    IN  IF X.status = "raised" THEN X
        ELSE IF loaded.stacking
             THEN Returned(<<p, "Stacking Ensemble (F1: 0.968+)">>)
        ELSE IF loaded.tabnet
             THEN Returned(<<p, "TabNet (F1: 0.979+)">>)
        ELSE IF loaded.simple
             THEN Returned(<<p, "XGBoost (F1: 0.95+)">>)
        ELSE Returned(<<500, "No model available">>)

\* mutant: the top band opened at 95 with > in place of >=
Level5Strict(score) ==
    IF score > 95 THEN "EXTREME LOW"
    ELSE IF score >= 90 THEN "LOW"
    ELSE IF score >= 70 THEN "MEDIUM"
    ELSE IF score >= 40 THEN "HIGH"
    ELSE "EXTREME"

Level5(score) ==
    IF score >= 95 THEN "EXTREME LOW"
    ELSE IF score >= 90 THEN "LOW"
    ELSE IF score >= 70 THEN "MEDIUM"
    ELSE IF score >= 40 THEN "HIGH"
    ELSE "EXTREME"

\* mutant: the boost without the min(1.0, ...) cap
calculate_confidence_uncapped(f, rug_prob) ==
    LET c0 == 1000000
        c1 == IF Get(f, "holders", 0) = 0 THEN (c0 * 8) \div 10 ELSE c0
        c2 == IF Get(f, "liquidity", 0) = 0 THEN (c1 * 8) \div 10 ELSE c1
        c3 == IF Get(f, "hours_post_migration", 0) < 5
              THEN (c2 * 9) \div 10 ELSE c2
        c4 == IF rug_prob > 900 \/ rug_prob < 100 THEN (c3 * 11) \div 10 ELSE c3
    IN  PyRound(c4, 1000)

\* _calculate_confidence; hours_post_migration is carried in hundredths of
\* an hour, the running product in millionths, the result in thousandths
calculate_confidence(f, rug_prob) ==
    LET c0 == 1000000
        c1 == IF Get(f, "holders", 0) = 0 THEN (c0 * 8) \div 10 ELSE c0
        c2 == IF Get(f, "liquidity", 0) = 0 THEN (c1 * 8) \div 10 ELSE c1
        c3 == IF Get(f, "hours_post_migration", 0) < 5
              THEN (c2 * 9) \div 10 ELSE c2
        c4 == IF rug_prob > 900 \/ rug_prob < 100
              THEN Min(1000000, (c3 * 11) \div 10) ELSE c3
    IN  PyRound(c4, 1000)

\* the list `risks` of _get_risk_factors before the slice of line 254
UltimateRisks(f) ==
    (IF Get(f, "mint_authority", "None") # "None"
     THEN << <<"Mint authority not revoked">> >> ELSE <<>>)
    \o (IF Get(f, "freeze_authority", "None") # "None"
        THEN << <<"Freeze authority not revoked">> >> ELSE <<>>)
    \o (IF Get(f, "honeypot", FALSE)
        THEN << <<"Honeypot detected">> >> ELSE <<>>)
    \o (IF Get(f, "buy_tax", 0) > 5 \/ Get(f, "sell_tax", 0) > 5
        THEN << <<"High taxes", Get(f, "buy_tax", 0), Get(f, "sell_tax", 0)>> >>
        ELSE <<>>)
    \o (IF Get(f, "top10_pct", 0) > 50
        THEN << <<"High concentration", Get(f, "top10_pct", 0)>> >> ELSE <<>>)
    \o (IF Get(f, "jito_bundle_clusters", 0) > 3
        THEN << <<"Multiple Jito bundles", Get(f, "jito_bundle_clusters", 0)>> >>
        ELSE <<>>)
    \o (IF Get(f, "dev_bought_pct", 0) > 10
        THEN << <<"High dev buy", Get(f, "dev_bought_pct", 0)>> >> ELSE <<>>)
    \o (IF Get(f, "bundled_clusters", 0) > 5
        THEN << <<"Wallet clusters detected", Get(f, "bundled_clusters", 0)>> >>
        ELSE <<>>)

ultimate_get_risk_factors(f) == Take5(UltimateRisks(f))

\* UltimateEnsemble.predict
predict(loaded, f, p) ==
    LET pp == predict_proba(loaded, f, p)
    IN  IF pp.status = "raised" THEN pp
        ELSE LET rug_prob   == pp.value[1]
                 model_used == pp.value[2]
                 score      == ScoreOfProb(rug_prob)
             IN  Returned([score |-> score,
                           level |-> Level5(score),
                           rug_probability |-> rug_prob,
                           confidence |-> calculate_confidence(f, rug_prob),
                           model_used |-> model_used,
                           risk_factors |-> ultimate_get_risk_factors(f)])

\* predict_ultimate.predict_rug_score
ultimate_predict_rug_score(ens, f, p) ==
    IF ens.isNone
    THEN Returned(<<50, "UNKNOWN", 500>>)
    ELSE LET result == predict(ens.models_loaded, f, p)
         IN  IF result.status = "raised" THEN result
             ELSE Returned(<<result.value.score, result.value.level,
                             result.value.rug_probability>>)

\* predict_ultimate.predict_full
predict_full(ens, f, p) ==
    IF ens.isNone
    THEN Returned([score |-> 50,
                   level |-> "UNKNOWN",
                   rug_probability |-> 500,
                   confidence |-> 0,
                   model_used |-> "None",
                   risk_factors |-> << <<"No model available">> >>])
    ELSE predict(ens.models_loaded, f, p)

\* ------------------------------------------------------------------------
\* The calls, as steps of a serving process
\* ------------------------------------------------------------------------

NoCall == [api |-> "none", out |-> Returned(<<>>)]

\* the serving transform not called yet
Unseen == [calls |-> 0, out |-> Returned(<<>>)]

\* the engine holds no unpickled object
NothingLoaded ==
    [fold_models  |-> [run |-> 0, answers |-> <<>>],
     meta_learner |-> [run |-> 0, coef |-> <<>>]]

\* no command-line run: the modules are used as a library
NoProcess == [script |-> "none", arg |-> "none", pc |-> "library",
              stdout |-> <<>>, stderr |-> <<>>, exit |-> -1]

\* predict.predict_rug_score(features), the model answering from G
PredictRugScoreCall(G) ==
    /\ model # "ImportRaised"
    /\ \E p \in G :
          ret' = [api |-> "predict.predict_rug_score",
                  out |-> predict_rug_score(model, features, p)]
    /\ UNCHANGED <<disk, model, ensemble, features, seen, proc>>
    /\ UNCHANGED trainVars
    /\ UNCHANGED <<objects, store>>

\* predict.get_risk_factors(features, rug_prob)
GetRiskFactorsCall ==
    /\ model # "ImportRaised"
    /\ ret' = [api |-> "predict.get_risk_factors",
               out |-> Returned(get_risk_factors(features))]
    /\ UNCHANGED <<disk, model, ensemble, features, seen, proc>>
    /\ UNCHANGED trainVars
    /\ UNCHANGED <<objects, store>>

\* predict.fallback_scoring(features)
FallbackScoringCall ==
    /\ model # "ImportRaised"
    /\ ret' = [api |-> "predict.fallback_scoring",
               out |-> Returned(fallback_scoring(features))]
    /\ UNCHANGED <<disk, model, ensemble, features, seen, proc>>
    /\ UNCHANGED trainVars
    /\ UNCHANGED <<objects, store>>

\* predict_ultimate.predict_rug_score(features)
UltimatePredictRugScoreCall(G) ==
    /\ \E p \in G :
          ret' = [api |-> "predict_ultimate.predict_rug_score",
                  out |-> ultimate_predict_rug_score(ensemble, features, p)]
    /\ UNCHANGED <<disk, model, ensemble, features, seen, proc>>
    /\ UNCHANGED trainVars
    /\ UNCHANGED <<objects, store>>

\* predict_ultimate.predict_full(features)
PredictFullCall(G) ==
    /\ \E p \in G :
          ret' = [api |-> "predict_ultimate.predict_full",
                  out |-> predict_full(ensemble, features, p)]
    /\ UNCHANGED <<disk, model, ensemble, features, seen, proc>>
    /\ UNCHANGED trainVars
    /\ UNCHANGED <<objects, store>>

\* ensemble._calculate_confidence(features, rug_prob) on a constructed engine
CalculateConfidenceCall(G) ==
    /\ ~ensemble.isNone
    /\ \E p \in G :
          ret' = [api |-> "_calculate_confidence",
                  out |-> Returned(<<p, calculate_confidence(features, p)>>)]
    /\ UNCHANGED <<disk, model, ensemble, features, seen, proc>>
    /\ UNCHANGED trainVars
    /\ UNCHANGED <<objects, store>>

NoDataset == [files |-> {}, columns |-> {}]

\* no training run in this process
NotTraining ==
    /\ pc = "idle"
    /\ fold = 0
    /\ folds = <<>>
    /\ heap = <<>>
    /\ meta_models = <<>>
    /\ meta_features = <<>>
    /\ meta_learner = [fitted |-> FALSE, X |-> <<>>]
    /\ dataset = NoDataset
    /\ raised = "none"
    /\ run = 0
    /\ at = <<>>
    /\ data_dir = <<>>
    /\ frame = <<>>

\* the state of both modules once imported with `d` on disk
Imported(d) ==
    /\ disk = d
    /\ model = LoadModule(d)
    /\ ensemble = LoadEnsemble(d)
    /\ ret = NoCall
    /\ seen = Unseen
    /\ proc = NoProcess
    /\ objects = NothingLoaded
    /\ store = <<>>
    /\ NotTraining

\* ------------------------------------------------------------------------
\* Spec: the serving process, any artifact set on disk
\* ------------------------------------------------------------------------

\* thousandths that put (1 - p) * 100 on every integer 0..100 and on every
\* integer plus 0.6
ProbGrid == {p \in 0..1000 : p % 10 \in {0, 4}}

\* model answers that land on and next to the band edges
ProbSamples == {0, 5, 50, 100, 301, 605, 1000}

ServiceInputs ==
    {a @@ b @@ c @@ d @@ e @@ g :
        a \in Opt("mint_authority", {"addr"}),
        b \in Opt("honeypot", {TRUE}),
        c \in Opt("buy_tax", {6}),
        d \in Opt("total_supply", {-1, 10}),
        e \in Opt("lp_burned", {9}),
        g \in Opt("holders", {100})}

Init ==
    /\ \E d \in [Artifacts -> {"missing", "ok"}] : Imported(d)
    /\ features \in ServiceInputs

Next ==
    \/ PredictRugScoreCall(ProbSamples)
    \/ GetRiskFactorsCall
    \/ UltimatePredictRugScoreCall(ProbSamples)
    \/ PredictFullCall(ProbSamples)

Spec == Init /\ [][Next]_vars

\* ------------------------------------------------------------------------
\* SpecFallback: fallback_scoring over its inputs
\* ------------------------------------------------------------------------

NoDisk == [a \in Artifacts |-> "missing"]

FallbackInputs ==
    {a @@ b @@ c @@ d @@ e @@ g @@ h @@ i :
        a \in Opt("mint_authority", {"None", "addr"}),
        b \in Opt("freeze_authority", {"None", "addr"}),
        c \in Opt("honeypot", {FALSE, TRUE}),
        d \in Opt("buy_tax", {5, 6}),
        e \in Opt("sell_tax", {5, 6}),
        g \in Opt("top10_pct", {15, 50, 51}),
        h \in Opt("lp_burned", {8, 9}),
        i \in Opt("total_supply", {0, 10})}

InitFallback ==
    /\ Imported(NoDisk)
    /\ features \in FallbackInputs

NextFallback ==
    \/ FallbackScoringCall
    \/ PredictRugScoreCall({500})

SpecFallback == InitFallback /\ [][NextFallback]_vars

\* ------------------------------------------------------------------------
\* SpecLevels: probability -> score -> level on every tier
\* ------------------------------------------------------------------------

DiskWith(S) == [a \in Artifacts |-> IF a \in S THEN "ok" ELSE "missing"]

LevelDisks ==
    {DiskWith({"fold_models.pkl", "meta_learner.pkl", "xgboost_rug_model_latest.pkl"}),
     DiskWith({"pytorch_tabnet", "tabnet_model", "xgboost_rug_model_latest.pkl"}),
     DiskWith({"xgboost_rug_model_latest.pkl"}),
     NoDisk}

LevelInputs == Opt("mint_authority", {"addr"}) \cup Opt("honeypot", {TRUE})

InitLevels ==
    /\ \E d \in LevelDisks : Imported(d)
    /\ features \in LevelInputs

NextLevels ==
    \/ PredictRugScoreCall(ProbGrid)
    \/ PredictFullCall(ProbGrid)

SpecLevels == InitLevels /\ [][NextLevels]_vars

\* ------------------------------------------------------------------------
\* SpecConfidence: _calculate_confidence over its inputs
\* ------------------------------------------------------------------------

ConfidenceInputs ==
    {a @@ b @@ c :
        a \in Opt("holders", {0, 100}),
        b \in Opt("liquidity", {0, 94}),
        c \in Opt("hours_post_migration", {0, 4, 5, 15})}

ConfidenceProbs == {0, 99, 100, 500, 900, 901, 1000}

InitConfidence ==
    /\ Imported(DiskWith({"xgboost_rug_model_latest.pkl"}))
    /\ features \in ConfidenceInputs

NextConfidence ==
    \/ CalculateConfidenceCall(ConfidenceProbs)
    \/ PredictFullCall(ConfidenceProbs)

SpecConfidence == InitConfidence /\ [][NextConfidence]_vars

\* ------------------------------------------------------------------------
\* SpecRisk: the risk-factor lists over their inputs
\* ------------------------------------------------------------------------

RiskInputs ==
    {a @@ b @@ c @@ d @@ e @@ g @@ h @@ i @@ j @@ k @@ l :
        a \in Opt("mint_authority", {"addr"}),
        b \in Opt("freeze_authority", {"addr"}),
        c \in Opt("honeypot", {TRUE}),
        d \in Opt("buy_tax", {6}),
        e \in Opt("sell_tax", {6}),
        g \in Opt("top10_pct", {51}),
        h \in Opt("jito_bundle_clusters", {4}),
        i \in Opt("dev_bought_pct", {11}),
        j \in Opt("bundled_clusters", {6}),
        k \in Opt("lp_burned", {9}),
        l \in Opt("total_supply", {10})}

InitRisk ==
    /\ \E d \in {NoDisk, DiskWith({"xgboost_rug_model_latest.pkl"})} : Imported(d)
    /\ features \in RiskInputs

NextRisk ==
    \/ GetRiskFactorsCall
    \/ PredictFullCall({500})

SpecRisk == InitRisk /\ [][NextRisk]_vars

\* ------------------------------------------------------------------------
\* Reading a result
\* ------------------------------------------------------------------------

TripleApis ==
    {"predict.predict_rug_score", "predict.fallback_scoring",
     "predict_ultimate.predict_rug_score"}

ScoringApis == TripleApis \cup {"predict_ultimate.predict_full"}

HasResult == ret.api \in ScoringApis /\ ret.out.status = "returned"

\* (score, level, rugProbability) of a returned result
Triple ==
    IF ret.api = "predict_ultimate.predict_full"
    THEN <<ret.out.value.score, ret.out.value.level, ret.out.value.rug_probability>>
    ELSE ret.out.value

\* the ensemble engine produced the result (a tier, not the `ensemble is None` stub)
ByEngine ==
    /\ ret.api \in {"predict_ultimate.predict_rug_score", "predict_ultimate.predict_full"}
    /\ ~ensemble.isNone

\* predict.py's model produced the result
ByBasicModel == ret.api = "predict.predict_rug_score" /\ model = "loaded"

ByFallback ==
    \/ ret.api = "predict.fallback_scoring"
    \/ ret.api = "predict.predict_rug_score" /\ model = "None"

NoArtifact ==
    \A a \in {"fold_models.pkl", "meta_learner.pkl", "tabnet_model",
              "xgboost_rug_model_latest.pkl"} : disk[a] = "missing"

B(x) == IF x THEN 1 ELSE 0

\* ------------------------------------------------------------------------
\* C1..C4: the contract of a call
\* ------------------------------------------------------------------------

\* C1: with no trained artifact on disk, predict.predict_rug_score,
\* predict_ultimate.predict_rug_score and predict_ultimate.predict_full each
\* return the (score, level, rugProbability) of the rule-based fallback scorer.
C1_NoArtifactUsesFallback ==
    (/\ NoArtifact
     /\ ret.api \in {"predict.predict_rug_score",
                     "predict_ultimate.predict_rug_score",
                     "predict_ultimate.predict_full"})
    => /\ ret.out.status = "returned"
       /\ Triple = fallback_scoring(features)

\* C2: no public inference call lets an exception escape: each ends by
\* returning a value.
C2_NoExceptionEscapes ==
    ret.api # "none" => ret.out.status = "returned"

DocumentedLevels == {"EXTREME LOW", "LOW", "MEDIUM", "HIGH", "EXTREME"}

\* C3: every returned result has score in 0..100, rugProbability in [0,1],
\* confidence (when present) in [0,1] and a documented risk-band name as level.
C3_ResultRanges ==
    HasResult
    => /\ Triple[1] \in 0..100
       /\ Triple[3] \in 0..1000
       /\ Triple[2] \in DocumentedLevels
       /\ ret.api = "predict_ultimate.predict_full"
          => ret.out.value.confidence \in 0..1000

\* C4: on a model-backed path and on the fallback path the score is
\* round((1 - rugProbability) * 100), to nearest, clamped to [0,100].
C4_ScoreIsRounded ==
    (HasResult /\ (ByEngine \/ ByBasicModel \/ ByFallback))
    => Triple[1] = Max(0, Min(100, PyRound((1000 - Triple[3]) * 100, 1000)))

\* ------------------------------------------------------------------------
\* C5, C6: the fallback scorer
\* ------------------------------------------------------------------------

MintSet == Get(features, "mint_authority", "None") # "None"

FreezeSet == Get(features, "freeze_authority", "None") # "None"

HighTax == Get(features, "buy_tax", 0) > 5 \/ Get(features, "sell_tax", 0) > 5

LowBurn == 10 * Get(features, "lp_burned", 0) < 9 * Get(features, "total_supply", 1)

Deductions ==
    20 * B(MintSet) + 20 * B(FreezeSet)
    + 30 * B(Get(features, "honeypot", FALSE))
    + 15 * B(HighTax)
    + 10 * B(Get(features, "top10_pct", 0) > 50)
    + 10 * B(LowBurn)

\* no red flag other than the authorities, lp_burned = 0.9 * total_supply
CleanButAuthorities ==
    /\ ~Get(features, "honeypot", FALSE)
    /\ ~HighTax
    /\ Get(features, "top10_pct", 0) = 15
    /\ "lp_burned" \in DOMAIN features /\ "total_supply" \in DOMAIN features
    /\ 10 * features["lp_burned"] = 9 * features["total_supply"]

\* C5: the fallback score is 100 minus 20, 20, 30, 15, 10, 10 for the six red
\* flags, each taken at most once, clamped to [0,100]; a clean token with
\* lp_burned = 0.9 * total_supply gets 100 / LOW, and 60 / HIGH once both
\* authorities are set.
C5_FallbackFormula ==
    (HasResult /\ ByFallback)
    => /\ Triple[1] = Max(0, Min(100, 100 - Deductions))
       /\ (CleanButAuthorities /\ ~MintSet /\ ~FreezeSet)
          => (Triple[1] = 100 /\ Triple[2] = "LOW")
       /\ (CleanButAuthorities /\ MintSet /\ FreezeSet)
          => (Triple[1] = 60 /\ Triple[2] = "HIGH")

C5_Witness ==
    /\ HasResult /\ ret.api = "predict.fallback_scoring"
    /\ CleanButAuthorities /\ MintSet /\ FreezeSet
    /\ Triple[1] = 60

Band4(s) ==
    CASE s \in 90..100 -> "LOW"
      [] s \in 70..89 -> "MEDIUM"
      [] s \in 40..69 -> "HIGH"
      [] s \in 0..39 -> "EXTREME"
      [] OTHER -> "none"

Band5(s) ==
    CASE s \in 95..100 -> "EXTREME LOW"
      [] s \in 90..94 -> "LOW"
      [] s \in 70..89 -> "MEDIUM"
      [] s \in 40..69 -> "HIGH"
      [] s \in 0..39 -> "EXTREME"
      [] OTHER -> "none"

\* C6: in a fallback result the score lies in [0,100], rugProbability is
\* 1 - score/100 of that score and level is its 4-band level.
C6_FallbackConsistent ==
    (HasResult /\ ByFallback)
    => /\ Triple[1] \in 0..100
       /\ 100 * Triple[3] = 1000 * (100 - Triple[1])
       /\ Triple[2] = Band4(Triple[1])

\* all six flags: 100 - 105 is clamped to 0
C6_Witness ==
    /\ HasResult /\ ByFallback
    /\ Deductions = 105
    /\ Triple = <<0, "EXTREME", 1000>>

\* ------------------------------------------------------------------------
\* C7: the two risk-level tables
\* ------------------------------------------------------------------------

\* C7: a result of the ensemble engine carries the 5-band level of its score,
\* a result of predict.predict_rug_score / fallback_scoring the 4-band level.
C7_LevelTables ==
    HasResult
    => /\ ByEngine => Triple[2] = Band5(Triple[1])
       /\ (ByBasicModel \/ ByFallback) => Triple[2] = Band4(Triple[1])

C7_Witness ==
    /\ HasResult /\ ByEngine
    /\ Triple[1] = 95 /\ Triple[2] = "EXTREME LOW"

\* ------------------------------------------------------------------------
\* C8: confidence
\* ------------------------------------------------------------------------

NoHolders == Get(features, "holders", 0) = 0

NoLiquidity == Get(features, "liquidity", 0) = 0

TooYoung == Get(features, "hours_post_migration", 0) < 5

Extreme(p) == p > 900 \/ p < 100

\* 1.0 * 0.8^h * 0.8^l * 0.9^t in ten-thousandths, times 1.1 capped at 1.0
\* when the probability is extreme, rounded to thousandths
ExpectedConfidence(p) ==
    LET base == (IF NoHolders THEN 8 ELSE 10) * (IF NoLiquidity THEN 8 ELSE 10)
                * (IF TooYoung THEN 9 ELSE 10) * 10
        c    == IF Extreme(p) THEN Min(10000, (base * 11) \div 10) ELSE base
    IN  PyRound(c, 10)

\* (rugProbability, confidence) of a confidence computation
ConfidencePair ==
    IF ret.api = "_calculate_confidence"
    THEN ret.out.value
    ELSE <<ret.out.value.rug_probability, ret.out.value.confidence>>

HasConfidence ==
    /\ ret.api \in {"_calculate_confidence", "predict_ultimate.predict_full"}
    /\ ret.out.status = "returned"
    /\ ~ensemble.isNone

\* C8: confidence is 1.0 times 0.8 (no holders) times 0.8 (no liquidity) times
\* 0.9 (hours_post_migration < 0.05), then min(1.0, c * 1.1) iff the
\* probability is above 0.9 or below 0.1, rounded to 3 decimals; it is 0.64
\* for no holders, no liquidity, an old enough token and a non-extreme
\* probability, and never above 1.0.
C8_Confidence ==
    HasConfidence
    => /\ ConfidencePair[2] = ExpectedConfidence(ConfidencePair[1])
       /\ ConfidencePair[2] <= 1000
       /\ (NoHolders /\ NoLiquidity /\ ~TooYoung /\ ~Extreme(ConfidencePair[1]))
          => ConfidencePair[2] = 640

\* the boost hits the cap: nothing missing and an extreme probability
C8_Witness ==
    /\ HasConfidence /\ ret.api = "_calculate_confidence"
    /\ ~NoHolders /\ ~NoLiquidity /\ ~TooYoung
    /\ Extreme(ConfidencePair[1])
    /\ ConfidencePair[2] = 1000

\* ------------------------------------------------------------------------
\* C9: at most five risk factors
\* ------------------------------------------------------------------------

HasRisks ==
    /\ ret.api \in {"predict.get_risk_factors", "predict_ultimate.predict_full"}
    /\ ret.out.status = "returned"

RiskList ==
    IF ret.api = "predict.get_risk_factors"
    THEN ret.out.value
    ELSE ret.out.value.risk_factors

\* C9: every returned riskFactors list has at most 5 entries.
C9_AtMostFiveRisks == HasRisks => Len(RiskList) <= 5

\* more than five rule predicates are true of the input
C9_Witness ==
    /\ HasRisks /\ ret.api = "predict_ultimate.predict_full"
    /\ ~ensemble.isNone
    /\ Len(UltimateRisks(features)) > 5
    /\ Len(RiskList) = 5

\* ------------------------------------------------------------------------
\* train_ultimate_2025.py: stacked training (main, steps 4 to 7)
\* ------------------------------------------------------------------------

\* size of the training set
NumRows == 6

\* StratifiedKFold(n_splits=5, ...)
NumFolds == 5

Rows == 1..NumRows

FoldIds == 1..NumFolds

\* the label column: one rug, the rest safe
y == [r \in Rows |-> IF r = 1 THEN 1 ELSE 0]

\* the columns of meta_features, in order
LearnerTypes == <<"xgb", "lgb", "cat", "nn">>

TypeSet == {LearnerTypes[i] : i \in 1..Len(LearnerTypes)}

\* cv.split(X, y): every row is in exactly one test set, each class is spread
\* over the test sets as evenly as it can be, train is the complement of test
StratifiedSplits ==
    LET Count(a, c, f) == Cardinality({r \in Rows : y[r] = c /\ a[r] = f})
        Even(a) == \A c \in {0, 1} : \A f, g \in FoldIds :
                      Count(a, c, f) - Count(a, c, g) <= 1
    IN  { [f \in FoldIds |-> [train_idx |-> {r \in Rows : a[r] # f},
                              val_idx   |-> {r \in Rows : a[r] = f}]] :
          a \in {b \in [Rows -> FoldIds] : Even(b)} }

\* mutant: the learner fitted on all of X
X_all(f) == Rows

\* X_train = X[train_idx]
X_train(f) == folds[f].train_idx

\* X_val = X[val_idx], and the rows meta_features[val_idx, c] assigns
X_val(f) == folds[f].val_idx

\* base_models: one object per boosted learner, made once before the loop
BaseModel(name) == <<name, 0>>

ZeroCell == [written |-> 0, fold |-> 0, model |-> <<"none", 0>>, fit |-> {}]

\* meta_features[val_idx, c] = pred, pred being the answers of object `obj`
WriteColumn(c, obj, h) ==
    [r \in Rows |->
        IF r \in X_val(fold)
        THEN [meta_features[r] EXCEPT
                ![c] = [written |-> @.written + 1, fold |-> fold,
                        model |-> obj, fit |-> h[obj].rows]]
        ELSE meta_features[r]]

\* base_models[name].fit(X_train, y_train); predict_proba(X_val); the write
FitAndScore(name, next) ==
    /\ pc = name
    /\ LET h == [heap EXCEPT ![BaseModel(name)] =
                    [fitted |-> TRUE, rows |-> X_train(fold)]]
       IN  /\ heap' = h
           /\ meta_features' = WriteColumn(name, BaseModel(name), h)
    /\ pc' = next
    /\ UNCHANGED <<fold, folds, meta_models, meta_learner, disk>>
    /\ UNCHANGED <<model, ensemble, features, ret, seen, proc>>
    /\ UNCHANGED <<objects, store, run, at, data_dir, frame>>
    /\ UNCHANGED <<dataset, raised>>

TrainXGBoost == FitAndScore("xgb", "lgb")

TrainLightGBM == FitAndScore("lgb", "cat")

TrainCatBoost == FitAndScore("cat", "nn")

\* train_swiglu_net builds a new network for the fold; its weights are
\* stepped on X_train only (X_val decides when to stop)
TrainNeuralNet ==
    /\ pc = "nn"
    /\ LET h == heap @@ (<<"nn", fold>> :> [fitted |-> TRUE, rows |-> X_train(fold)])
       IN  /\ heap' = h
           /\ meta_features' = WriteColumn("nn", <<"nn", fold>>, h)
    /\ pc' = "append"
    /\ UNCHANGED <<fold, folds, meta_models, meta_learner, disk>>
    /\ UNCHANGED <<model, ensemble, features, ret, seen, proc>>
    /\ UNCHANGED <<objects, store, run, at, data_dir, frame>>
    /\ UNCHANGED <<dataset, raised>>

\* a failure handler that gives up the remaining folds and goes on to the
\* meta-learner, the cells not yet written left at their initial zero
LearnerFailsBreak ==
    /\ pc \in TypeSet
    /\ pc' = "meta"
    /\ UNCHANGED <<fold, folds, heap, meta_models, meta_features, meta_learner,
                   dataset, raised, disk>>
    /\ UNCHANGED <<model, ensemble, features, ret, seen, proc>>
    /\ UNCHANGED <<objects, store, run, at, data_dir, frame>>

\* fit, train_swiglu_net or predict_proba raises inside the fold loop (lines
\* 288-321): nothing catches it, main() ends there.  A boosted learner may
\* have been refitted before its predict_proba raised.
LearnerFails ==
    /\ pc \in TypeSet
    /\ pc' = "aborted"
    /\ raised' = "Exception"
    /\ \/ heap' = heap
       \/ /\ pc # "nn"
          /\ heap' = [heap EXCEPT ![BaseModel(pc)] =
                         [fitted |-> TRUE, rows |-> X_train(fold)]]
    /\ UNCHANGED <<fold, folds, meta_models, meta_features, meta_learner,
                   dataset, disk>>
    /\ UNCHANGED <<model, ensemble, features, ret, seen, proc>>
    /\ UNCHANGED <<objects, store, run, at, data_dir, frame>>

\* a loop that refits the meta-learner at the end of every fold
AppendFoldModelsRefit ==
    /\ pc = "append"
    /\ meta_models' =
          [t \in TypeSet |->
              Append(meta_models[t],
                     IF t = "nn" THEN <<"nn", fold>> ELSE BaseModel(t))]
    /\ meta_learner' = [fitted |-> TRUE, X |-> meta_features]
    /\ IF fold < NumFolds
       THEN fold' = fold + 1 /\ pc' = "xgb"
       ELSE fold' = fold /\ pc' = "meta"
    /\ UNCHANGED <<folds, heap, meta_features, disk>>
    /\ UNCHANGED <<model, ensemble, features, ret, seen, proc>>
    /\ UNCHANGED <<objects, store, run, at, data_dir, frame>>
    /\ UNCHANGED <<dataset, raised>>

\* lines 324-327, then the next iteration or the end of the loop
AppendFoldModels ==
    /\ pc = "append"
    /\ meta_models' =
          [t \in TypeSet |->
              Append(meta_models[t],
                     IF t = "nn" THEN <<"nn", fold>> ELSE BaseModel(t))]
    /\ IF fold < NumFolds
       THEN fold' = fold + 1 /\ pc' = "xgb"
       ELSE fold' = fold /\ pc' = "meta"
    /\ UNCHANGED <<folds, heap, meta_features, meta_learner, disk>>
    /\ UNCHANGED <<model, ensemble, features, ret, seen, proc>>
    /\ UNCHANGED <<objects, store, run, at, data_dir, frame>>
    /\ UNCHANGED <<dataset, raised>>

\* meta_learner.fit(meta_features, y)
FitMetaLearner ==
    /\ pc = "meta"
    /\ meta_learner' = [fitted |-> TRUE, X |-> meta_features]
    /\ pc' = "dump_fold_models"
    /\ UNCHANGED <<fold, folds, heap, meta_models, meta_features, disk>>
    /\ UNCHANGED <<model, ensemble, features, ret, seen, proc>>
    /\ UNCHANGED <<objects, store, run, at, data_dir, frame>>
    /\ UNCHANGED <<dataset, raised>>

\* joblib.dump / json.dump of step 7, one file per step
Dump(here, file, next) ==
    /\ pc = here
    /\ disk' = [disk EXCEPT ![file] = "ok"]
    /\ store' = (file :> run) @@ store
    /\ pc' = next
    /\ UNCHANGED <<fold, folds, heap, meta_models, meta_features, meta_learner>>
    /\ UNCHANGED <<model, ensemble, features, ret, seen, proc>>
    /\ UNCHANGED <<objects, run, at, data_dir, frame>>
    /\ UNCHANGED <<dataset, raised>>

DumpFoldModels == Dump("dump_fold_models", "fold_models.pkl", "dump_meta_learner")

DumpMetaLearner == Dump("dump_meta_learner", "meta_learner.pkl", "dump_metadata")

DumpMetadata == Dump("dump_metadata", "ensemble_metadata.json", "done")

\* main() about to enter the fold loop, nothing trained or saved yet
InitTrain ==
    /\ disk = [a \in Artifacts \cup {"ensemble_metadata.json"} |-> "missing"]
    /\ model = "None"
    /\ ensemble = LoadEnsemble(NoDisk)
    /\ features = <<>>
    /\ ret = NoCall
    /\ seen = Unseen
    /\ proc = NoProcess
    /\ dataset = [files |-> {"training_data.csv"},
                  columns |-> {"label", "honeypot", "jito_bundle"}]
    /\ raised = "none"
    /\ objects = NothingLoaded
    /\ store = <<>>
    /\ run = 1
    /\ at = <<>>
    /\ data_dir = <<>>
    /\ frame = <<>>
    /\ pc = "xgb"
    /\ fold = 1
    /\ folds \in StratifiedSplits
    /\ heap = [o \in {BaseModel("xgb"), BaseModel("lgb"), BaseModel("cat")} |->
                  [fitted |-> FALSE, rows |-> {}]]
    /\ meta_models = [t \in TypeSet |-> <<>>]
    /\ meta_features = [r \in Rows |-> [t \in TypeSet |-> ZeroCell]]
    /\ meta_learner = [fitted |-> FALSE, X |-> <<>>]

NextTrain ==
    \/ TrainXGBoost
    \/ TrainLightGBM
    \/ TrainCatBoost
    \/ TrainNeuralNet
    \/ LearnerFails
    \/ AppendFoldModels
    \/ FitMetaLearner
    \/ DumpFoldModels
    \/ DumpMetaLearner
    \/ DumpMetadata

SpecTrain == InitTrain /\ [][NextTrain]_vars

\* ------------------------------------------------------------------------
\* C10: the out-of-fold invariant
\* ------------------------------------------------------------------------

LoopDone == pc \in {"meta", "dump_fold_models", "dump_meta_learner", "dump_metadata", "done"}

RatioColumns == {3, 12, 14}

\* Series / Series: a zero denominator gives inf or NaN, never an exception
PandasDiv(a, b) == <<a, b>>

\* X.replace([np.inf, -np.inf], 0).fillna(0) on column i
Sanitize(i, x) == IF i \in RatioColumns /\ x[2] = 0 THEN 0 ELSE x

\* engineer_features(df) of the training scripts on a one-row dataset whose
\* columns are the keys of f.  df.get('honeypot', 0) and
\* df.get('jito_bundle', 0) answer the int 0 when the column is absent, and
\* int has no astype.
train_engineer_features(f) ==
    IF "honeypot" \notin DOMAIN f \/ "jito_bundle" \notin DOMAIN f
    THEN Raised("AttributeError")
    ELSE LET X == <<
                IF Get(f, "mint_authority", "None") = "None" THEN 1 ELSE 0,
                IF Get(f, "freeze_authority", "None") = "None" THEN 1 ELSE 0,
                PandasDiv(Get(f, "lp_burned", 0), Get(f, "total_supply", 1) + 1),
                IF f["honeypot"] THEN 1 ELSE 0,
                Get(f, "buy_tax", 0),
                Get(f, "sell_tax", 0),
                Get(f, "holders_after_filter", Get(f, "holders", 0)),
                Get(f, "top10_pct", 0),
                Get(f, "sniper_wallets_pct", 0),
                Get(f, "dev_bought_pct", 0),
                Get(f, "jito_bundle_clusters", 0),
                PandasDiv(Get(f, "market_cap", 0), Get(f, "liquidity", 1) + 1),
                Get(f, "slippage_10k", 0),
                PandasDiv(Get(f, "vol_5m", 0), Get(f, "vol_1m", 1) + 1),
                Get(f, "price_change_5m", 0),
                Get(f, "kde_floor", 0),
                Get(f, "avg_buy_price", 0),
                Get(f, "hours_post_migration", 0),
                IF f["jito_bundle"] THEN 1 ELSE 0,
                Get(f, "gnn_cluster_prob", 0) >>
         IN  Returned([i \in 1..20 |-> Sanitize(i, X[i])])

\* ------------------------------------------------------------------------
\* Specification SpecTransform: the three transforms called on one sample,
\* with scoring calls in between
\* ------------------------------------------------------------------------

\* the first outcome of the serving transform is remembered, and whether it
\* was called once or more than once
Remember(out) ==
    IF seen.calls = 0 THEN [calls |-> 1, out |-> out]
    ELSE [calls |-> 2, out |-> seen.out]

\* a transform that consumed its input: features.pop('holders_after_filter')
EngineerFeaturesCallPopping ==
    /\ ~ensemble.isNone
    /\ ret' = [api |-> "UltimateEnsemble.engineer_features",
               out |-> engineer_features(features)]
    /\ seen' = Remember(engineer_features(features))
    /\ features' = [k \in DOMAIN features \ {"holders_after_filter"} |-> features[k]]
    /\ UNCHANGED <<disk, model, ensemble, proc>>
    /\ UNCHANGED trainVars
    /\ UNCHANGED <<objects, store>>

\* ensemble.engineer_features(features) on a constructed engine
EngineerFeaturesCall ==
    /\ ~ensemble.isNone
    /\ ret' = [api |-> "UltimateEnsemble.engineer_features",
               out |-> engineer_features(features)]
    /\ seen' = Remember(engineer_features(features))
    /\ UNCHANGED <<disk, model, ensemble, features, proc>>
    /\ UNCHANGED trainVars
    /\ UNCHANGED <<objects, store>>

\* predict.engineer_features_for_prediction(features)
EngineerFeaturesForPredictionCall ==
    /\ model # "ImportRaised"
    /\ ret' = [api |-> "predict.engineer_features_for_prediction",
               out |-> engineer_features_for_prediction(features)]
    /\ seen' = Remember(engineer_features_for_prediction(features))
    /\ UNCHANGED <<disk, model, ensemble, features, proc>>
    /\ UNCHANGED trainVars
    /\ UNCHANGED <<objects, store>>

\* engineer_features(df) of a training script, df holding the one sample
TrainEngineerFeaturesCall ==
    /\ ret' = [api |-> "train.engineer_features",
               out |-> train_engineer_features(features)]
    /\ UNCHANGED <<disk, model, ensemble, features, seen, proc>>
    /\ UNCHANGED trainVars
    /\ UNCHANGED <<objects, store>>

TransformInputs ==
    {a @@ b @@ c @@ d @@ e @@ g @@ h @@ i :
        a \in Opt("mint_authority", {"None", "addr"}),
        b \in Opt("lp_burned", {5}),
        c \in Opt("total_supply", {-1, 9}),
        d \in Opt("honeypot", BOOLEAN),
        e \in Opt("jito_bundle", BOOLEAN),
        g \in Opt("holders", {7}),
        h \in Opt("holders_after_filter", {3}),
        i \in Opt("vol_1m", {-1})}

TransformProbs == {50, 605}

InitTransform ==
    /\ \E d \in {DiskWith({"xgboost_rug_model_latest.pkl"})} : Imported(d)
    /\ features \in TransformInputs

NextTransform ==
    \/ EngineerFeaturesCall
    \/ EngineerFeaturesForPredictionCall
    \/ TrainEngineerFeaturesCall
    \/ PredictFullCall(TransformProbs)
    \/ GetRiskFactorsCall

SpecTransform == InitTransform /\ [][NextTransform]_vars

\* ------------------------------------------------------------------------
\* C11: training / serving parity of the transform
\* ------------------------------------------------------------------------

ServingTransformApis ==
    {"UltimateEnsemble.engineer_features", "predict.engineer_features_for_prediction"}

TransformApis == ServingTransformApis \cup {"train.engineer_features"}

\* C11: on every sample the training-time transform and the two serving-time
\* transforms give the same outcome: the same 20 values in the same column
\* order, the boolean-like fields mapped to 0/1 alike.
C11_TransformParity ==
    ret.api \in TransformApis
    => /\ ret.out = train_engineer_features(features)
       /\ ret.out = engineer_features(features)
       /\ ret.out = engineer_features_for_prediction(features)

\* ------------------------------------------------------------------------
\* C12: the serving transform is deterministic and stateless
\* ------------------------------------------------------------------------

\* C12: every call of a serving transform gives what the first call on this
\* mapping gave, whatever was called in between, and leaves the input
\* mapping, the loaded model, the engine's registry and the files as they were.
C12_TransformStateless ==
    [][ret'.api \in ServingTransformApis
       => /\ seen'.calls > 0
          /\ ret'.out = seen'.out
          /\ (seen.calls > 0 => seen'.out = seen.out)
          /\ features' = features
          /\ model' = model
          /\ ensemble' = ensemble
          /\ disk' = disk]_vars

\* the transform called again, after a first call that returned the vector
C12_Witness ==
    /\ ret.api \in ServingTransformApis
    /\ seen.calls = 2
    /\ ret.out.status = "returned"
    /\ Len(ret.out.value) = 20
    /\ "holders_after_filter" \in DOMAIN features

\* ------------------------------------------------------------------------
\* C13: absent raw fields
\* ------------------------------------------------------------------------

\* every denominator of the three ratio columns is non-zero
NonZeroDenominators(f) ==
    /\ Get(f, "total_supply", 1) + 1 # 0
    /\ Get(f, "liquidity", 1) + 1 # 0
    /\ Get(f, "vol_1m", 1) + 1 # 0

\* C13: whatever subset of the raw fields is present (the empty mapping, a
\* dataset without the honeypot or jito_bundle column), the transform returns
\* the full 20-value vector and does not raise, at the serving and at the
\* training call sites.
C13_AnySubsetAccepted ==
    (ret.api \in TransformApis /\ NonZeroDenominators(features))
    => /\ ret.out.status = "returned"
       /\ Len(ret.out.value) = 20

\* ------------------------------------------------------------------------
\* C14: numeric anomalies
\* ------------------------------------------------------------------------

\* every component of a serving vector is a finite number: no quotient is
\* left with a zero denominator
AllFinite(X) == \A i \in RatioColumns : X[i][2] # 0

\* C14: for every input, a zero ratio denominator included, the serving
\* transform raises no arithmetic error and returns 20 finite components,
\* each non-finite derived value replaced by 0.
C14_AnomaliesReplaced ==
    ret.api \in ServingTransformApis
    => /\ ret.out.status = "returned"
       /\ Len(ret.out.value) = 20
       /\ AllFinite(ret.out.value)

\* ------------------------------------------------------------------------
\* Specification SpecProcess: predict.py or predict_ultimate.py run as a
\* script with --features <argv[2]>: the module-level load, then the
\* command-line block
\* ------------------------------------------------------------------------

\* a models directory whose files may also be unreadable
ProcessDisks == [Artifacts -> {"missing", "ok", "corrupt"}]

\* argv[2]: not JSON, JSON that is not an object, or a JSON object
ArgKinds == {"malformed", "array", "object"}

CliInputs ==
    {a @@ b @@ c :
        a \in Opt("mint_authority", {"addr"}),
        b \in Opt("honeypot", {TRUE}),
        c \in Opt("total_supply", {-1})}

CliProbs == {50, 605}

\* the module-level name `ensemble` before the module body has run
NotImported ==
    [isNone |-> TRUE,
     models_loaded |-> [stacking |-> FALSE, tabnet |-> FALSE,
                        gnn |-> FALSE, simple |-> FALSE]]

\* a line of text (a banner, a traceback) and a line holding one JSON value
TextLine == [kind |-> "text", json |-> <<>>]

JsonLine(v) == [kind |-> "json", json |-> v]

\* predict.py lines 11-17 run at start-up: the load and its banner on
\* stdout, or the exception nothing catches: traceback on stderr, status 1
ImportPredict ==
    /\ proc.pc = "start"
    /\ proc.script = "predict.py"
    /\ model' = LoadModule(disk)
    /\ proc' = IF LoadModule(disk) = "ImportRaised"
               THEN [proc EXCEPT !.pc = "crashed",
                                 !.stderr = Append(@, TextLine),
                                 !.exit = 1]
               ELSE [proc EXCEPT !.pc = "main",
                                 !.stdout = Append(@, TextLine)]
    /\ UNCHANGED <<disk, ensemble, features, ret, seen>>
    /\ UNCHANGED trainVars
    /\ UNCHANGED <<objects, store>>

\* predict_ultimate.py lines 260-265 run at start-up: every exception of the
\* construction is caught; the banners go to stdout
ImportPredictUltimate ==
    /\ proc.pc = "start"
    /\ proc.script = "predict_ultimate.py"
    /\ ensemble' = LoadEnsemble(disk)
    /\ proc' = [proc EXCEPT !.pc = "main", !.stdout = Append(@, TextLine)]
    /\ UNCHANGED <<disk, model, features, ret, seen>>
    /\ UNCHANGED trainVars
    /\ UNCHANGED <<objects, store>>

\* predict.py lines 164-173: json.loads, predict_rug_score, get_risk_factors
PredictCliResult(m, arg, f, p) ==
    IF arg = "malformed" THEN Raised("JSONDecodeError")
    ELSE IF arg = "array" THEN Raised("AttributeError")
    ELSE LET r == predict_rug_score(m, f, p)
         IN  IF r.status = "raised" THEN r
             ELSE Returned([score |-> r.value[1],
                            level |-> r.value[2],
                            rugProbability |-> r.value[3],
                            riskFactors |-> get_risk_factors(f)])

\* predict_ultimate.py lines 306-307: json.loads, predict_full; with no
\* engine predict_full never touches its argument
UltimateCliResult(ens, arg, f, p) ==
    IF arg = "malformed" THEN Raised("JSONDecodeError")
    ELSE IF arg = "array" /\ ~ens.isNone THEN Raised("AttributeError")
    ELSE predict_full(ens, f, p)

\* print(json.dumps(result)); sys.exit(0), or the except branch:
\* print(json.dumps({'error': str(e)}), file=sys.stderr); sys.exit(1).
\* json.dumps raises TypeError on a numpy.float32 probability.
CliExit(result, dumps_ok) ==
    IF result.status = "returned" /\ dumps_ok
    THEN [proc EXCEPT !.pc = "exited",
                      !.stdout = Append(@, JsonLine(result.value)),
                      !.exit = 0]
    ELSE [proc EXCEPT !.pc = "exited",
                      !.stderr = Append(@, JsonLine(
                          [error |-> IF result.status = "raised"
                                     THEN result.exc ELSE "TypeError"])),
                      !.exit = 1]

\* predict.py lines 161-179
CliPredict ==
    /\ proc.pc = "main"
    /\ proc.script = "predict.py"
    /\ \E p \in CliProbs :
       \E dumps_ok \in (IF model = "None" THEN {TRUE} ELSE BOOLEAN) :
          proc' = CliExit(PredictCliResult(model, proc.arg, features, p), dumps_ok)
    /\ UNCHANGED <<disk, model, ensemble, features, ret, seen>>
    /\ UNCHANGED trainVars
    /\ UNCHANGED <<objects, store>>

\* predict_ultimate.py lines 303-312
CliPredictUltimate ==
    /\ proc.pc = "main"
    /\ proc.script = "predict_ultimate.py"
    /\ \E p \in CliProbs :
       \E dumps_ok \in (IF ensemble.isNone THEN {TRUE} ELSE BOOLEAN) :
          proc' = CliExit(UltimateCliResult(ensemble, proc.arg, features, p), dumps_ok)
    /\ UNCHANGED <<disk, model, ensemble, features, ret, seen>>
    /\ UNCHANGED trainVars
    /\ UNCHANGED <<objects, store>>

InitProcess ==
    /\ disk \in ProcessDisks
    /\ model = "unset"
    /\ ensemble = NotImported
    /\ \E script \in {"predict.py", "predict_ultimate.py"} : \E arg \in ArgKinds :
          /\ proc = [script |-> script, arg |-> arg, pc |-> "start",
                     stdout |-> <<>>, stderr |-> <<>>, exit |-> -1]
          /\ features \in (IF arg = "object" THEN CliInputs ELSE {<<>>})
    /\ ret = NoCall
    /\ seen = Unseen
    /\ objects = NothingLoaded
    /\ store = <<>>
    /\ NotTraining

NextProcess ==
    \/ ImportPredict
    \/ ImportPredictUltimate
    \/ CliPredict
    \/ CliPredictUltimate

SpecProcess == InitProcess /\ [][NextProcess]_vars

\* ------------------------------------------------------------------------
\* C15: probe independence
\* ------------------------------------------------------------------------

StackingOk(d) == d["fold_models.pkl"] = "ok" /\ d["meta_learner.pkl"] = "ok"

TabNetOk(d) == d["pytorch_tabnet"] = "ok" /\ d["tabnet_model"] = "ok"

SimpleOk(d) == d["xgboost_rug_model_latest.pkl"] = "ok"

Started == proc.pc \in {"main", "exited"}

\* C15: no probe failure (missing file, corrupt file, unmet dependency) ends
\* the start-up with an exception, and a tier whose own artifacts are
\* loadable is loaded whatever happened to the probes of the other tiers.
C15_ProbeIndependence ==
    /\ proc.pc # "crashed"
    /\ (Started /\ proc.script = "predict.py" /\ SimpleOk(disk)) => model = "loaded"
    /\ (Started /\ proc.script = "predict_ultimate.py")
       => /\ StackingOk(disk) => ~ensemble.isNone /\ ensemble.models_loaded.stacking
          /\ TabNetOk(disk) => ~ensemble.isNone /\ ensemble.models_loaded.tabnet
          /\ SimpleOk(disk) => ~ensemble.isNone /\ ensemble.models_loaded.simple

\* ------------------------------------------------------------------------
\* C16: the highest loaded tier answers
\* ------------------------------------------------------------------------

\* the label of the best tier whose artifacts are loadable
HighestTier(d) ==
    IF StackingOk(d) THEN "Stacking Ensemble (F1: 0.968+)"
    ELSE IF TabNetOk(d) THEN "TabNet (F1: 0.979+)"
    ELSE "XGBoost (F1: 0.95+)"

\* the JSON values printed on stdout
Results == SelectSeq(proc.stdout, LAMBDA l : l.kind = "json")

\* an inference of predict_ultimate.py answered by a model
Answered ==
    /\ proc.script = "predict_ultimate.py"
    /\ proc.pc = "exited"
    /\ proc.exit = 0
    /\ ~ensemble.isNone

Errors == SelectSeq(proc.stderr, LAMBDA l : l.kind = "json")

\* one JSON result on stdout, nothing on stderr, status 0
ResultOutcome ==
    /\ proc.exit = 0
    /\ Len(Results) = 1
    /\ "error" \notin DOMAIN Results[1].json
    /\ proc.stderr = <<>>

\* one JSON {error} on stderr, no result on stdout, status 1
ErrorOutcome ==
    /\ proc.exit = 1
    /\ Len(Results) = 0
    /\ Len(Errors) = 1
    /\ DOMAIN Errors[1].json = {"error"}
    /\ Len(proc.stderr) = 1

\* C17: a run in --features mode never ends with an uncaught exception; it
\* ends with exactly one of the two outcomes, and an argument that is not a
\* JSON object ends with the error outcome.
C17_CliProtocol ==
    /\ proc.pc # "crashed"
    /\ proc.pc = "exited"
       => /\ ResultOutcome \/ ErrorOutcome
          /\ proc.arg # "object" => ErrorOutcome

\* ------------------------------------------------------------------------
\* Specification SpecData: main() of the training scripts from the data
\* load to the label check (train_ultimate_2025.py 201-225;
\* train_xgboost_pro.py 15-32 and 70-81 in the same order)
\* ------------------------------------------------------------------------

DataFiles == {"solrpds_2025.csv", "my_labeled_rugs.csv", "training_data.csv"}

\* the columns of the concatenated frame that main() and engineer_features
\* test for presence
DataColumns == {"label", "is_rug", "honeypot", "jito_bundle"}

Datasets ==
    {[files |-> F, columns |-> C] :
        <<F, C>> \in {fc \in (SUBSET DataFiles) \X (SUBSET DataColumns) :
                        fc[1] = {} => fc[2] = {}}}

\* main() ended by an exception nothing catches
Abort(exc) ==
    /\ pc' = "aborted"
    /\ raised' = exc

\* lines 201-215: read the files that exist, fail when there is none
LoadData ==
    /\ pc = "load"
    /\ IF dataset.files = {}
       THEN Abort("FileNotFoundError")
       ELSE pc' = "engineer" /\ raised' = raised
    /\ UNCHANGED <<fold, folds, heap, meta_models, meta_features, meta_learner,
                   dataset, disk>>
    /\ UNCHANGED <<model, ensemble, features, ret, seen, proc>>
    /\ UNCHANGED <<objects, store, run, at, data_dir, frame>>

\* a row of the frame, as far as the presence of its boolean columns goes
SampleRow == [c \in dataset.columns \cap {"honeypot", "jito_bundle"} |-> FALSE]

\* line 218: X_raw = engineer_features(df), before the label is looked at
EngineerTrainingFeatures ==
    /\ pc = "engineer"
    /\ IF train_engineer_features(SampleRow).status = "raised"
       THEN Abort(train_engineer_features(SampleRow).exc)
       ELSE pc' = "label" /\ raised' = raised
    /\ UNCHANGED <<fold, folds, heap, meta_models, meta_features, meta_learner,
                   dataset, disk>>
    /\ UNCHANGED <<model, ensemble, features, ret, seen, proc>>
    /\ UNCHANGED <<objects, store, run, at, data_dir, frame>>

\* lines 220-225: y from 'label', else from 'is_rug', else the data error
SelectLabel ==
    /\ pc = "label"
    /\ IF dataset.columns \cap {"label", "is_rug"} = {}
       THEN Abort("ValueError")
       ELSE pc' = "split" /\ raised' = raised
    /\ UNCHANGED <<fold, folds, heap, meta_models, meta_features, meta_learner,
                   dataset, disk>>
    /\ UNCHANGED <<model, ensemble, features, ret, seen, proc>>
    /\ UNCHANGED <<objects, store, run, at, data_dir, frame>>

InitData ==
    /\ disk = [a \in Artifacts \cup {"ensemble_metadata.json"} |-> "missing"]
    /\ model = "None"
    /\ ensemble = LoadEnsemble(NoDisk)
    /\ features = <<>>
    /\ ret = NoCall
    /\ seen = Unseen
    /\ proc = NoProcess
    /\ dataset \in Datasets
    /\ raised = "none"
    /\ objects = NothingLoaded
    /\ store = <<>>
    /\ run = 1
    /\ at = <<>>
    /\ data_dir = <<>>
    /\ frame = <<>>
    /\ pc = "load"
    /\ fold = 0
    /\ folds = <<>>
    /\ heap = <<>>
    /\ meta_models = <<>>
    /\ meta_features = <<>>
    /\ meta_learner = [fitted |-> FALSE, X |-> <<>>]

NextData ==
    \/ LoadData
    \/ EngineerTrainingFeatures
    \/ SelectLabel

SpecData == InitData /\ [][NextData]_vars

\* ------------------------------------------------------------------------
\* C18: the fatal data errors
\* ------------------------------------------------------------------------

NoTrainingData == dataset.files = {}

NoLabelColumn == dataset.files # {} /\ dataset.columns \cap {"label", "is_rug"} = {}

NothingTrainedOrWritten ==
    /\ fold = 0
    /\ heap = <<>>
    /\ ~meta_learner.fitted
    /\ \A a \in DOMAIN disk : disk[a] = "missing"

\* C18: with no training data file, and with data that has neither a 'label'
\* nor an 'is_rug' column, main() never gets to the cross-validation; it
\* aborts with the data error of that case (FileNotFoundError, ValueError)
\* whatever feature columns the data has, nothing trained and nothing written.
C18_DataErrorsAbort ==
    /\ pc = "split" => ~NoTrainingData /\ ~NoLabelColumn
    /\ pc = "aborted"
       => /\ NothingTrainedOrWritten
          /\ NoTrainingData => raised = "FileNotFoundError"
          /\ NoLabelColumn => raised = "ValueError"

\* ------------------------------------------------------------------------
\* C19: per-fold persistence
\* ------------------------------------------------------------------------

\* C19: when the fold loop is over, the list kept for each learner type holds
\* one instance per fold, the f-th fitted on fold f's training rows, and no
\* two entries of a list are the same instance.
C19_PerFoldModels ==
    LoopDone
    => \A t \in TypeSet :
          /\ Len(meta_models[t]) = NumFolds
          /\ \A f \in FoldIds : heap[meta_models[t][f]].rows = X_train(f)
          /\ \A f, g \in FoldIds : f # g => meta_models[t][f] # meta_models[t][g]

\* ------------------------------------------------------------------------
\* C20: a failing base learner
\* ------------------------------------------------------------------------

SavedFiles == {"fold_models.pkl", "meta_learner.pkl", "ensemble_metadata.json"}

\* C20: the meta-learner is fitted only on a matrix whose every cell was
\* written, and a run ended by a failing base learner has fitted no
\* meta-learner and written none of the three files.
C20_FailureAborts ==
    /\ meta_learner.fitted
       => \A r \in Rows : \A c \in TypeSet : meta_learner.X[r][c].written = 1
    /\ pc = "aborted"
       => /\ raised = "Exception"
          /\ ~meta_learner.fitted
          /\ \A a \in SavedFiles : disk[a] = "missing"

\* the run ended in the third fold, the matrix partly written
C20_Witness ==
    /\ pc = "aborted"
    /\ fold = 3
    /\ \E r \in Rows : \E c \in TypeSet : meta_features[r][c].written = 1
    /\ \E r \in Rows : \E c \in TypeSet : meta_features[r][c].written = 0
    /\ \A a \in SavedFiles : disk[a] = "missing"

\* ------------------------------------------------------------------------
\* C21: the order of stacked training
\* ------------------------------------------------------------------------

AllCellsWritten == \A r \in Rows : \A c \in TypeSet : meta_features[r][c].written = 1

\* C21: the meta-learner changes only once in a run, from unfitted to fitted,
\* and only when all NumFolds folds have stored their models and written
\* every cell of all four columns; a file is written only when the
\* meta-learner is fitted; a run that reaches its end has fitted it.
C21_MetaLearnerLast ==
    [][/\ meta_learner' # meta_learner
          => /\ ~meta_learner.fitted
             /\ meta_learner'.fitted
             /\ fold = NumFolds
             /\ \A t \in TypeSet : Len(meta_models[t]) = NumFolds
             /\ AllCellsWritten
       /\ disk' # disk => meta_learner.fitted
       /\ pc' = "done" => meta_learner'.fitted]_vars

\* the run is over: the meta-learner fitted, the three files written
C21_Witness ==
    /\ pc = "done"
    /\ meta_learner.fitted
    /\ \A a \in SavedFiles : disk[a] = "ok"

\* ------------------------------------------------------------------------
\* The stacked tier of predict_proba (predict_ultimate.py lines 137-155)
\* ------------------------------------------------------------------------

RECURSIVE SumSeq(_)
SumSeq(s) == IF s = <<>> THEN 0 ELSE Head(s) + SumSeq(Tail(s))

\* np.mean of a non-empty list of probabilities, to the thousandth
Mean(s) == SumSeq(s) \div Len(s)

\* meta_learner.predict_proba(row)[0, 1]: the fitted combiner is a function
\* of the ordered row; here a weighted mean, the weights in tenths
meta_learner_predict_proba(coef, row) ==
    SumSeq([i \in 1..Len(row) |-> coef[i] * row[i]]) \div 10

\* a row built from the first persisted instance of each type only
StackedRowFirstFold(answers) ==
    <<answers["xgb"][1], answers["lgb"][1], answers["cat"][1], answers["nn"][1]>>

\* lines 138-151: meta_features[0, i] for i, name in enumerate(['xgb',
\* 'lgb', 'cat']) is the mean over fold_models[name]; meta_features[0, 3]
\* is the mean over fold_models['nn'].  answers[name][k] is what the k-th
\* persisted instance of `name` answers for the engineered row.
StackedRow(answers) ==
    LET names == <<"xgb", "lgb", "cat">>
        boosted == [i \in 1..3 |-> Mean(answers[names[i]])]
    IN  <<boosted[1], boosted[2], boosted[3], Mean(answers["nn"])>>

\* lines 154-155
stacked_predict_proba(o) ==
    meta_learner_predict_proba(o.meta_learner.coef, StackedRow(o.fold_models.answers))

\* ensemble.predict_proba(features) on an engine whose stacked tier is loaded
StackedPredictProbaCall ==
    /\ ensemble.models_loaded.stacking
    /\ ret' = [api |-> "UltimateEnsemble.predict_proba",
               out |-> predict_proba(ensemble.models_loaded, features,
                                     stacked_predict_proba(objects))]
    /\ UNCHANGED <<disk, model, ensemble, features, seen, proc>>
    /\ UNCHANGED trainVars
    /\ UNCHANGED <<objects, store>>

\* ensemble.predict(features) on the same engine
StackedPredictCall ==
    /\ ensemble.models_loaded.stacking
    /\ ret' = [api |-> "UltimateEnsemble.predict",
               out |-> predict(ensemble.models_loaded, features,
                               stacked_predict_proba(objects))]
    /\ UNCHANGED <<disk, model, ensemble, features, seen, proc>>
    /\ UNCHANGED trainVars
    /\ UNCHANGED <<objects, store>>

\* what the five persisted instances of one type may answer for a row
AnswerLists ==
    {[k \in FoldIds |-> 100],
     [k \in FoldIds |-> (k * 180) % 1000],
     [k \in FoldIds |-> 1000 - k * k * 30]}

\* the weights of a fitted combiner, in tenths
Coefs == {<<1, 2, 3, 4>>, <<4, 3, 2, 1>>, <<7, 1, 1, 1>>}

StackedInputs ==
    {a @@ b : a \in Opt("mint_authority", {"addr"}),
              b \in Opt("total_supply", {-1})}

InitStacked ==
    /\ disk = DiskWith({"fold_models.pkl", "meta_learner.pkl"})
    /\ model = LoadModule(disk)
    /\ ensemble = LoadEnsemble(disk)
    /\ features \in StackedInputs
    /\ ret = NoCall
    /\ seen = Unseen
    /\ proc = NoProcess
    /\ \E answers \in [TypeSet -> AnswerLists] : \E coef \in Coefs :
          objects = [fold_models  |-> [run |-> 1, answers |-> answers],
                     meta_learner |-> [run |-> 1, coef |-> coef]]
    /\ store = [a \in {"fold_models.pkl", "meta_learner.pkl"} |-> 1]
    /\ NotTraining

NextStacked ==
    \/ StackedPredictProbaCall
    \/ StackedPredictCall

SpecStacked == InitStacked /\ [][NextStacked]_vars

\* ------------------------------------------------------------------------
\* C22: the stacked tier averages per type and feeds the meta-learner
\* ------------------------------------------------------------------------

\* the row the meta-learner was trained on has one column per learner type,
\* in the order of LearnerTypes; its entry for a type at serving time is the
\* mean over every persisted instance of that type
ExpectedRow ==
    [i \in 1..Len(LearnerTypes) |->
        SumSeq(objects.fold_models.answers[LearnerTypes[i]])
            \div Len(objects.fold_models.answers[LearnerTypes[i]])]

\* C22: on the stacked tier predict_proba returns the meta-learner's answer
\* for the row of per-type means over all persisted per-fold instances, the
\* columns in the training order xgb, lgb, cat, nn.
C22_StackedAveraging ==
    (ret.api = "UltimateEnsemble.predict_proba" /\ ret.out.status = "returned")
    => /\ ret.out.value[1] =
             meta_learner_predict_proba(objects.meta_learner.coef, ExpectedRow)
       /\ ret.out.value[2] = "Stacking Ensemble (F1: 0.968+)"

\* the instances of a type disagree, so the mean differs from any single answer
C22_Witness ==
    /\ ret.api = "UltimateEnsemble.predict_proba"
    /\ ret.out.status = "returned"
    /\ \A t \in TypeSet : objects.fold_models.answers[t][1] # objects.fold_models.answers[t][2]
    /\ ret.out.value[1] # objects.fold_models.answers["xgb"][1]

\* ------------------------------------------------------------------------
\* Specification SpecFolds: the bodies of the fold loop
\* (train_ultimate_2025.py lines 282-327) run as tasks, in any order and
\* interleaved statement by statement, on the objects main() creates:
\* the one base_models dict, the one meta_features matrix, the meta_models
\* lists
\* ------------------------------------------------------------------------

\* how many fold bodies may be in progress at once
MaxParallel == 2

\* the statements of one fold body, in program order
FoldSteps ==
    <<"xgb.fit", "xgb.score", "lgb.fit", "lgb.score", "cat.fit", "cat.score",
      "nn.fit", "nn.score", "append">>

\* at[f]: 0 before the body of fold f starts, the index of its next
\* statement while it runs, Len(FoldSteps) + 1 when it is over
FoldOver(f) == at[f] = Len(FoldSteps) + 1

Running == {f \in FoldIds : at[f] > 0 /\ ~FoldOver(f)}

\* the bodies are handed out in fold order, to at most MaxParallel workers
MayStep(f, step) ==
    \/ at[f] > 0 /\ ~FoldOver(f) /\ FoldSteps[at[f]] = step
    \/ /\ at[f] = 0
       /\ FoldSteps[1] = step
       /\ \A g \in FoldIds : g < f => at[g] > 0
       /\ Cardinality(Running) < MaxParallel

Advance(f) == [at EXCEPT ![f] = IF @ = 0 THEN 2 ELSE @ + 1]

\* the object fold f's statements for learner type t work on
FoldObject(f, t) == IF t = "nn" THEN <<"nn", f>> ELSE BaseModel(t)

\* base_models[t].fit(X_train, y_train) (lines 288, 297, 306), or
\* train_swiglu_net(X_train, ...) building the fold's own network (line 315)
FoldFit(f, t) ==
    /\ MayStep(f, t \o ".fit")
    /\ at' = Advance(f)
    /\ heap' = (FoldObject(f, t) :> [fitted |-> TRUE, rows |-> X_train(f)]) @@ heap
    /\ UNCHANGED <<pc, fold, folds, meta_models, meta_features, meta_learner,
                   dataset, raised, run, data_dir, frame>>
    /\ UNCHANGED servingVars

\* meta_features[val_idx, c] = <object>.predict_proba(X_val)[:, 1] (lines
\* 289-290, 298-299, 307-308, 316-319): the object as it is fitted now
FoldScore(f, t) ==
    /\ MayStep(f, t \o ".score")
    /\ at' = Advance(f)
    /\ meta_features' =
          [r \in Rows |->
              IF r \in X_val(f)
              THEN [meta_features[r] EXCEPT
                      ![t] = [written |-> @.written + 1, fold |-> f,
                              model |-> FoldObject(f, t),
                              fit |-> heap[FoldObject(f, t)].rows]]
              ELSE meta_features[r]]
    /\ UNCHANGED <<pc, fold, folds, heap, meta_models, meta_learner,
                   dataset, raised, run, data_dir, frame>>
    /\ UNCHANGED servingVars

\* lines 324-327
FoldAppend(f) ==
    /\ MayStep(f, "append")
    /\ at' = Advance(f)
    /\ meta_models' = [t \in TypeSet |-> Append(meta_models[t], FoldObject(f, t))]
    /\ UNCHANGED <<pc, fold, folds, heap, meta_features, meta_learner,
                   dataset, raised, run, data_dir, frame>>
    /\ UNCHANGED servingVars

\* cv.split for the tasks: row r validated by fold ((r - 1) mod NumFolds) + 1
TaskSplits ==
    {s \in StratifiedSplits :
        \A r \in Rows : r \in s[((r - 1) % NumFolds) + 1].val_idx}

InitFolds ==
    /\ disk = [a \in Artifacts \cup {"ensemble_metadata.json"} |-> "missing"]
    /\ model = "None"
    /\ ensemble = LoadEnsemble(NoDisk)
    /\ features = <<>>
    /\ ret = NoCall
    /\ seen = Unseen
    /\ proc = NoProcess
    /\ objects = NothingLoaded
    /\ store = <<>>
    /\ dataset = [files |-> {"training_data.csv"},
                  columns |-> {"label", "honeypot", "jito_bundle"}]
    /\ raised = "none"
    /\ run = 1
    /\ data_dir = <<>>
    /\ frame = <<>>
    /\ pc = "folds"
    /\ fold = 0
    /\ at = [f \in FoldIds |-> 0]
    /\ folds \in TaskSplits
    /\ heap = [o \in {BaseModel("xgb"), BaseModel("lgb"), BaseModel("cat")} |->
                  [fitted |-> FALSE, rows |-> {}]]
    /\ meta_models = [t \in TypeSet |-> <<>>]
    /\ meta_features = [r \in Rows |-> [t \in TypeSet |-> ZeroCell]]
    /\ meta_learner = [fitted |-> FALSE, X |-> <<>>]

NextFolds ==
    \E f \in FoldIds :
        \/ \E t \in TypeSet : FoldFit(f, t)
        \/ \E t \in TypeSet : FoldScore(f, t)
        \/ FoldAppend(f)

SpecFolds == InitFolds /\ [][NextFolds]_vars

\* ------------------------------------------------------------------------
\* C23: fold independence
\* ------------------------------------------------------------------------

AllFoldsOver == \A f \in FoldIds : FoldOver(f)

\* the fold that validates row r
FoldOfRow(r) == CHOOSE f \in FoldIds : r \in X_val(f)

\* C23: whatever the interleaving of the fold bodies, the outcome is that of
\* the sequential loop: a cell is written at most once, by its row's fold,
\* from a model fitted on that fold's training rows; when all bodies are
\* over every cell is written, every list of fold models is complete, and a
\* boosted learner is left as the sequential loop leaves it, fitted on the
\* last fold's training rows.
C23_FoldsIndependent ==
    /\ \A r \in Rows : \A c \in TypeSet :
          /\ meta_features[r][c].written <= 1
          /\ meta_features[r][c].written = 1
             => /\ meta_features[r][c].fold = FoldOfRow(r)
                /\ meta_features[r][c].fit = X_train(FoldOfRow(r))
    /\ AllFoldsOver
       => /\ \A r \in Rows : \A c \in TypeSet : meta_features[r][c].written = 1
          /\ \A t \in TypeSet : Len(meta_models[t]) = NumFolds
          /\ \A t \in TypeSet \ {"nn"} : heap[BaseModel(t)].rows = X_train(NumFolds)

\* ------------------------------------------------------------------------
\* SpecRegistry: inference calls of several callers on one imported process
\* ------------------------------------------------------------------------

MaxCallers == 2

Callers == 1..MaxCallers

InferenceApis ==
    {"UltimateEnsemble.predict_proba", "UltimateEnsemble.predict",
     "predict_ultimate.predict_full", "predict_ultimate.predict_rug_score",
     "predict.predict_rug_score"}

RegistryInputs == {"mint_authority" :> "addr", "total_supply" :> -1}

RegistryProbs == {5, 605}

Idle == [api |-> "none", f |-> <<>>, p |-> 0]

\* what the call api(f) returns on the registry (m, ens), the model answering p
InferenceOutcome(api, m, ens, f, p) ==
    CASE api = "UltimateEnsemble.predict_proba" -> predict_proba(ens.models_loaded, f, p)
      [] api = "UltimateEnsemble.predict" -> predict(ens.models_loaded, f, p)
      [] api = "predict_ultimate.predict_full" -> predict_full(ens, f, p)
      [] api = "predict_ultimate.predict_rug_score" -> ultimate_predict_rug_score(ens, f, p)
      [] OTHER -> predict_rug_score(m, f, p)

\* caller t enters an inference function with the argument f
InferenceCall(t) ==
    /\ at[t] = Idle
    /\ \E api \in InferenceApis : \E f \in RegistryInputs : \E p \in RegistryProbs :
          /\ api \in {"UltimateEnsemble.predict_proba", "UltimateEnsemble.predict"}
             => ~ensemble.isNone
          /\ api = "predict.predict_rug_score" => model # "ImportRaised"
          /\ at' = [at EXCEPT ![t] = [api |-> api, f |-> f, p |-> p]]
    /\ UNCHANGED <<disk, model, ensemble, features, ret, seen, proc, objects, store>>
    /\ UNCHANGED <<pc, fold, folds, heap, meta_models, meta_features, meta_learner,
                   dataset, raised, run, data_dir, frame>>

\* a call that drops the tier it used from models_loaded
InferenceReturnEvicting(t) ==
    /\ at[t] # Idle
    /\ ret' = [api |-> at[t].api,
               out |-> InferenceOutcome(at[t].api, model, ensemble, at[t].f, at[t].p)]
    /\ ensemble' = [ensemble EXCEPT !.models_loaded.stacking = FALSE]
    /\ at' = [at EXCEPT ![t] = Idle]
    /\ UNCHANGED <<disk, model, features, seen, proc, objects, store>>
    /\ UNCHANGED <<pc, fold, folds, heap, meta_models, meta_features, meta_learner,
                   dataset, raised, run, data_dir, frame>>

\* the body of the call of caller t: it reads the registry and returns
InferenceReturn(t) ==
    /\ at[t] # Idle
    /\ ret' = [api |-> at[t].api,
               out |-> InferenceOutcome(at[t].api, model, ensemble, at[t].f, at[t].p)]
    /\ at' = [at EXCEPT ![t] = Idle]
    /\ UNCHANGED <<disk, model, ensemble, features, seen, proc, objects, store>>
    /\ UNCHANGED <<pc, fold, folds, heap, meta_models, meta_features, meta_learner,
                   dataset, raised, run, data_dir, frame>>

InitRegistry ==
    /\ disk \in LevelDisks
    /\ model = LoadModule(disk)
    /\ ensemble = LoadEnsemble(disk)
    /\ features = <<>>
    /\ ret = NoCall
    /\ seen = Unseen
    /\ proc = NoProcess
    /\ objects = NothingLoaded
    /\ store = <<>>
    /\ pc = "idle"
    /\ fold = 0
    /\ folds = <<>>
    /\ heap = <<>>
    /\ meta_models = <<>>
    /\ meta_features = <<>>
    /\ meta_learner = [fitted |-> FALSE, X |-> <<>>]
    /\ dataset = NoDataset
    /\ raised = "none"
    /\ run = 0
    /\ data_dir = <<>>
    /\ frame = <<>>
    /\ at = [t \in Callers |-> Idle]

NextRegistry ==
    \E t \in Callers :
       \/ InferenceCall(t)
       \/ InferenceReturn(t)

SpecRegistry == InitRegistry /\ [][NextRegistry]_vars

\* ------------------------------------------------------------------------
\* C24: the registry after initialization
\* ------------------------------------------------------------------------

\* what the call c returns on the registry as import built it from the disk
ReturnsAlone(c) ==
    InferenceOutcome(c.api, LoadModule(disk), LoadEnsemble(disk), c.f, c.p)

\* C24: no step of an inference call changes the loaded flags, the module-level
\* model and ensemble, the unpickled objects or the artifacts, and every call,
\* whatever other calls are in progress, returns what it returns alone
C24_RegistryImmutable ==
    [][/\ ensemble' = ensemble
       /\ model' = model
       /\ objects' = objects
       /\ disk' = disk
       /\ store' = store
       /\ \A t \in Callers :
             (at[t] # Idle /\ at'[t] = Idle) => ret'.out = ReturnsAlone(at[t])]_vars

\* a stacked answer returned while the other caller is inside a call
C24_Witness ==
    /\ ret.api = "UltimateEnsemble.predict_proba"
    /\ ret.out.status = "returned"
    /\ ret.out.value[2] = "Stacking Ensemble (F1: 0.968+)"
    /\ at[1] = Idle
    /\ at[2] # Idle

\* ------------------------------------------------------------------------
\* C25: the risk factors are the first five true rules, in rule order
\* ------------------------------------------------------------------------

\* the rule a returned string belongs to, by its template
RuleOf(template) ==
    CASE template \in {"Mint authority not revoked", "Freeze authority not revoked"}
            -> "authority not revoked"
      [] template = "Honeypot detected" -> "honeypot"
      [] template \in {"High buy tax", "High sell tax", "High taxes"}
            -> "high buy/sell tax"
      [] template = "High concentration" -> "high top-10 concentration"
      [] template \in {"Multiple Jito bundles", "Multiple Jito bundles detected"}
            -> "excessive bundle clusters"
      [] template = "High dev buy" -> "high developer buy share"
      [] template = "Wallet clusters detected" -> "wallet clusters detected"
      [] OTHER -> "no listed rule"

\* the seven listed rules that are true of f, in the listed order
TrueRules(f) ==
    (IF Get(f, "mint_authority", "None") # "None" \/ Get(f, "freeze_authority", "None") # "None"
     THEN <<"authority not revoked">> ELSE <<>>)
    \o (IF Get(f, "honeypot", FALSE) THEN <<"honeypot">> ELSE <<>>)
    \o (IF Get(f, "buy_tax", 0) > 5 \/ Get(f, "sell_tax", 0) > 5
        THEN <<"high buy/sell tax">> ELSE <<>>)
    \o (IF Get(f, "top10_pct", 0) > 50 THEN <<"high top-10 concentration">> ELSE <<>>)
    \o (IF Get(f, "jito_bundle_clusters", 0) > 3
        THEN <<"excessive bundle clusters">> ELSE <<>>)
    \o (IF Get(f, "dev_bought_pct", 0) > 10 THEN <<"high developer buy share">> ELSE <<>>)
    \o (IF Get(f, "bundled_clusters", 0) > 5 THEN <<"wallet clusters detected">> ELSE <<>>)

\* a risk list computed by the rules (not the fixed list of the no-model result)
RulesEvaluated ==
    /\ HasRisks
    /\ ret.api = "predict_ultimate.predict_full" => ~ensemble.isNone

\* C25: the returned riskFactors are the first min(5, n) of the n true rules
\* among the seven listed ones, in the listed order, one string per true rule
C25_FirstFiveTrueRules ==
    RulesEvaluated
    => [i \in 1..Len(RiskList) |-> RuleOf(RiskList[i][1])]
       = SubSeq(TrueRules(features), 1, Min(5, Len(TrueRules(features))))

\* ------------------------------------------------------------------------
\* SpecCorpus: download_latest_solrpds.consolidate_datasets, then the loading
\* of the data files by a training script
\* ------------------------------------------------------------------------

MaxFileRows == 2

Tokens == {"A", "B"}

SourceFiles == {"solrpds_2025.csv", "my_labeled_rugs.csv"}

\* the files a training script reads, in the order of its loop
TrainingFiles == <<"solrpds_2025.csv", "my_labeled_rugs.csv", "training_data.csv">>

\* a row of a frame: the values of its two possible id columns
IdRow(col, token) ==
    [mint          |-> IF col = "mint" THEN token ELSE "NaN",
     token_address |-> IF col = "token_address" THEN token ELSE "NaN"]

\* the CSV files with one id column and up to MaxFileRows rows
CsvFiles ==
    {[columns |-> {col}, rows |-> [i \in 1..n |-> IdRow(col, toks[i])]] :
        col \in {"mint", "token_address"},
        n \in 1..MaxFileRows,
        toks \in [1..MaxFileRows -> Tokens]}

\* pd.concat(dfs, ignore_index=True)
RECURSIVE Concat(_)
Concat(dfs) ==
    IF dfs = <<>> THEN [columns |-> {}, rows |-> <<>>]
    ELSE LET rest == Concat(Tail(dfs))
         IN  [columns |-> Head(dfs).columns \cup rest.columns,
              rows    |-> Head(dfs).rows \o rest.rows]

\* df.drop_duplicates(subset=[col]): the first row of each value is kept
RECURSIVE drop_duplicates(_, _)
drop_duplicates(rows, col) ==
    IF rows = <<>> THEN <<>>
    ELSE LET n    == Len(rows)
             init == drop_duplicates(SubSeq(rows, 1, n - 1), col)
         IN  IF \E i \in 1..(n - 1) : rows[i][col] = rows[n][col]
             THEN init
             ELSE Append(init, rows[n])

\* the orders in which os.listdir can give the files of S
Listings(S) ==
    {s \in [1..Cardinality(S) -> S] : \A i, j \in 1..Cardinality(S) : i # j => s[i] # s[j]}

\* consolidate_datasets(): training_data.csv written from every other CSV file
ConsolidateDatasets ==
    /\ pc = "data"
    /\ LET all_files == DOMAIN data_dir \ {"training_data.csv"}
       IN  /\ all_files # {}
           /\ \E order \in Listings(all_files) :
                 LET combined == Concat([i \in 1..Len(order) |-> data_dir[order[i]]])
                     id_col   == IF "mint" \in combined.columns
                                 THEN "mint" ELSE "token_address"
                     deduped  == [columns |-> combined.columns,
                                  rows    |-> drop_duplicates(combined.rows, id_col)]
                 IN  data_dir' = ("training_data.csv" :> deduped) @@ data_dir
    /\ UNCHANGED <<pc, fold, folds, heap, meta_models, meta_features, meta_learner,
                   dataset, raised, run, at, frame>>
    /\ UNCHANGED servingVars

\* train_ultimate_2025.main step 1 / train_xgboost_pro.load_training_data
LoadTrainingData ==
    /\ pc = "data"
    /\ LET present == SelectSeq(TrainingFiles, LAMBDA name : name \in DOMAIN data_dir)
       IN  IF present = <<>>
           THEN /\ pc' = "aborted"
                /\ raised' = "FileNotFoundError"
                /\ frame' = frame
           ELSE /\ pc' = "loaded"
                /\ raised' = raised
                /\ frame' = Concat([i \in 1..Len(present) |-> data_dir[present[i]]]).rows
    /\ UNCHANGED <<fold, folds, heap, meta_models, meta_features, meta_learner,
                   dataset, run, at, data_dir>>
    /\ UNCHANGED servingVars

\* a shuffled split puts the row v alone in a validation part
SplitRows ==
    /\ pc = "loaded"
    /\ Len(frame) > 1
    /\ \E v \in 1..Len(frame) :
          folds' = << [train |-> (1..Len(frame)) \ {v}, val |-> {v}] >>
    /\ pc' = "split"
    /\ UNCHANGED <<fold, heap, meta_models, meta_features, meta_learner,
                   dataset, raised, run, at, data_dir, frame>>
    /\ UNCHANGED servingVars

InitCorpus ==
    /\ disk = [a \in Artifacts \cup {"ensemble_metadata.json"} |-> "missing"]
    /\ model = "None"
    /\ ensemble = LoadEnsemble(NoDisk)
    /\ features = <<>>
    /\ ret = NoCall
    /\ seen = Unseen
    /\ proc = NoProcess
    /\ objects = NothingLoaded
    /\ store = <<>>
    /\ dataset = NoDataset
    /\ raised = "none"
    /\ run = 1
    /\ at = <<>>
    /\ \E S \in SUBSET SourceFiles : data_dir \in [S -> CsvFiles]
    /\ frame = <<>>
    /\ pc = "data"
    /\ fold = 0
    /\ folds = <<>>
    /\ heap = <<>>
    /\ meta_models = <<>>
    /\ meta_features = <<>>
    /\ meta_learner = [fitted |-> FALSE, X |-> <<>>]

NextCorpus ==
    \/ ConsolidateDatasets
    \/ LoadTrainingData
    \/ SplitRows

SpecCorpus == InitCorpus /\ [][NextCorpus]_vars

\* ------------------------------------------------------------------------
\* C26: one row per token
\* ------------------------------------------------------------------------

\* the token a row is about
TokenOf(row) == IF row.mint # "NaN" THEN row.mint ELSE row.token_address

Consolidated == "training_data.csv" \in DOMAIN data_dir

\* C26: once consolidate_datasets has written training_data.csv, the frame a
\* training script loads holds no token in two rows, and no split puts a
\* token in both the training and the validation part
C26_OneRowPerToken ==
    Consolidated
    => /\ pc \in {"loaded", "split"}
          => \A i, j \in 1..Len(frame) :
                i # j => TokenOf(frame[i]) # TokenOf(frame[j])
       /\ pc = "split"
          => \A s \in 1..Len(folds) :
                \A i \in folds[s].train : \A j \in folds[s].val :
                   TokenOf(frame[i]) # TokenOf(frame[j])

\* ------------------------------------------------------------------------
\* SpecRuns: training runs one after another on one models directory, any of
\* them ended at any point, and a serving process imported at any moment
\* ------------------------------------------------------------------------

MaxRuns == 3

RunSteps == {"train", "dump_fold_models", "dump_meta_learner", "dump_metadata"}

\* steps 1 to 6 of main(): data loaded, folds trained, meta-learner fitted
TrainingCompletes ==
    /\ pc = "train"
    /\ pc' = "dump_fold_models"
    /\ meta_learner' = [fitted |-> TRUE, X |-> <<>>]
    /\ UNCHANGED <<fold, folds, heap, meta_models, meta_features,
                   dataset, raised, run, at, data_dir, frame>>
    /\ UNCHANGED servingVars

\* the process of the run ends between two statements of main()
RunKilled ==
    /\ pc \in RunSteps
    /\ pc' = "crashed"
    /\ raised' = "killed"
    /\ UNCHANGED <<fold, folds, heap, meta_models, meta_features, meta_learner,
                   dataset, run, at, data_dir, frame>>
    /\ UNCHANGED servingVars

\* the process ends inside joblib.dump: the file is left partly written
DumpInterrupted ==
    /\ pc \in {"dump_fold_models", "dump_meta_learner"}
    /\ LET file == IF pc = "dump_fold_models" THEN "fold_models.pkl" ELSE "meta_learner.pkl"
       IN  /\ disk' = [disk EXCEPT ![file] = "corrupt"]
           /\ store' = (file :> run) @@ store
    /\ pc' = "crashed"
    /\ raised' = "killed"
    /\ UNCHANGED <<fold, folds, heap, meta_models, meta_features, meta_learner,
                   dataset, run, at, data_dir, frame>>
    /\ UNCHANGED <<model, ensemble, features, ret, seen, proc, objects>>

\* train_ultimate_2025.py started again on the same models directory
StartRun ==
    /\ pc \in {"done", "crashed"}
    /\ run < MaxRuns
    /\ run' = run + 1
    /\ pc' = "train"
    /\ raised' = "none"
    /\ meta_learner' = [fitted |-> FALSE, X |-> <<>>]
    /\ UNCHANGED <<fold, folds, heap, meta_models, meta_features,
                   dataset, at, data_dir, frame>>
    /\ UNCHANGED servingVars

\* what load_models leaves in self.fold_models and self.meta_learner
LoadedObjects(d, s) ==
    IF load_models(d).status = "returned" /\ load_models(d).value.stacking
    THEN [fold_models  |-> [run |-> s["fold_models.pkl"], answers |-> <<>>],
          meta_learner |-> [run |-> s["meta_learner.pkl"], coef |-> <<>>]]
    ELSE NothingLoaded

\* predict_ultimate imported by a serving process: ensemble = UltimateEnsemble()
InitializeRegistry ==
    /\ ensemble' = LoadEnsemble(disk)
    /\ objects' = LoadedObjects(disk, store)
    /\ UNCHANGED <<disk, model, features, ret, seen, proc, store>>
    /\ UNCHANGED trainVars

InitRuns ==
    /\ disk = [a \in Artifacts \cup {"ensemble_metadata.json"} |-> "missing"]
    /\ model = "None"
    /\ ensemble = LoadEnsemble(NoDisk)
    /\ features = <<>>
    /\ ret = NoCall
    /\ seen = Unseen
    /\ proc = NoProcess
    /\ objects = NothingLoaded
    /\ store = <<>>
    /\ dataset = NoDataset
    /\ raised = "none"
    /\ run = 1
    /\ at = <<>>
    /\ data_dir = <<>>
    /\ frame = <<>>
    /\ pc = "train"
    /\ fold = 0
    /\ folds = <<>>
    /\ heap = <<>>
    /\ meta_models = <<>>
    /\ meta_features = <<>>
    /\ meta_learner = [fitted |-> FALSE, X |-> <<>>]

NextRuns ==
    \/ TrainingCompletes
    \/ DumpFoldModels
    \/ DumpMetaLearner
    \/ DumpMetadata
    \/ RunKilled
    \/ DumpInterrupted
    \/ StartRun
    \/ InitializeRegistry

SpecRuns == InitRuns /\ [][NextRuns]_vars

\* ------------------------------------------------------------------------
\* C27: the two stacked artifacts come from one run
\* ------------------------------------------------------------------------

\* C27: whenever fold_models.pkl and meta_learner.pkl are both on disk they
\* were written by the same run, and a registry whose stacked tier is loaded
\* holds fold models and a meta-learner of the same run
C27_ArtifactsFromOneRun ==
    /\ (disk["fold_models.pkl"] = "ok" /\ disk["meta_learner.pkl"] = "ok")
       => store["fold_models.pkl"] = store["meta_learner.pkl"]
    /\ ensemble.models_loaded.stacking
       => objects.fold_models.run = objects.meta_learner.run

\* ------------------------------------------------------------------------
\* C28: a constructed engine has a tier
\* ------------------------------------------------------------------------

\* a result of predict_full computed by a constructed engine
EngineAnswered ==
    /\ ret.api = "predict_ultimate.predict_full"
    /\ ret.out.status = "returned"
    /\ ~ensemble.isNone

\* C28: whatever artifacts are on disk, a constructed engine has the stacked,
\* the TabNet or the simple tier loaded and never the GNN tier; the engine is
\* None exactly when no tier could be loaded; and no result of a constructed
\* engine names 'No model available' as the model used
C28_SomeTierLoaded ==
    /\ ~ensemble.isNone
       => /\ \/ ensemble.models_loaded.stacking
             \/ ensemble.models_loaded.tabnet
             \/ ensemble.models_loaded.simple
          /\ ~ensemble.models_loaded.gnn
    /\ ensemble.isNone
       <=> ~ \/ (disk["fold_models.pkl"] = "ok" /\ disk["meta_learner.pkl"] = "ok")
             \/ (disk["pytorch_tabnet"] = "ok" /\ disk["tabnet_model"] = "ok")
             \/ disk["xgboost_rug_model_latest.pkl"] = "ok"
    /\ EngineAnswered => ret.out.value.model_used # "No model available"

\* an engine built beside gnn_model.pth answers from its simple tier
C28_Witness ==
    /\ EngineAnswered
    /\ disk["gnn_model.pth"] = "ok"
    /\ ~ensemble.models_loaded.gnn
    /\ ret.out.value.model_used = "XGBoost (F1: 0.95+)"

\* ------------------------------------------------------------------------
\* C29: the 5-band table refines the 4-band table
\* ------------------------------------------------------------------------

\* the levels from the riskiest to the safest
LevelRank(level) ==
    CASE level = "EXTREME" -> 0
      [] level = "HIGH" -> 1
      [] level = "MEDIUM" -> 2
      [] level = "LOW" -> 3
      [] level = "EXTREME LOW" -> 4

ByFourBands == HasResult /\ (ByBasicModel \/ ByFallback)

ByFiveBands == HasResult /\ ByEngine

\* a level is the other table's level of the same score below 95, and from
\* 95 on the 5-band table says EXTREME LOW where the 4-band table says LOW
TablesAgreeBelow95 ==
    /\ ByFiveBands
       => IF Triple[1] <= 94
          THEN Triple[2] = Level4(Triple[1])
          ELSE Triple[2] = "EXTREME LOW" /\ Level4(Triple[1]) = "LOW"
    /\ ByFourBands
       => IF Triple[1] <= 94
          THEN Triple[2] = Level5(Triple[1])
          ELSE Triple[2] = "LOW" /\ Level5(Triple[1]) = "EXTREME LOW"

\* of two results of one table in a row, the higher score has no riskier level
LevelsMonotone ==
    /\ (ByFiveBands /\ ByFiveBands' /\ Triple[1] <= Triple'[1])
       => LevelRank(Triple[2]) <= LevelRank(Triple'[2])
    /\ (ByFourBands /\ ByFourBands' /\ Triple[1] <= Triple'[1])
       => LevelRank(Triple[2]) <= LevelRank(Triple'[2])

\* C29: the two tables give every score 0..94 the same level and differ only
\* on 95..100 (EXTREME LOW against LOW), and each is monotone in the score
C29_FiveBandsRefineFour == []TablesAgreeBelow95 /\ [][LevelsMonotone]_vars

\* predict.py's model scores 97: LOW, where the engine's table says EXTREME LOW
C29_Witness ==
    /\ HasResult /\ ByBasicModel
    /\ Triple[1] = 97
    /\ Triple[2] = "LOW"
    /\ Level5(Triple[1]) = "EXTREME LOW"

\* ------------------------------------------------------------------------
\* C30: the fallback score before the clamp
\* ------------------------------------------------------------------------

\* the mappings that set one more red flag of the input
FlagSetters ==
    {"mint_authority" :> "addr",
     "freeze_authority" :> "addr",
     "honeypot" :> TRUE,
     "buy_tax" :> 6,
     "sell_tax" :> 6,
     "top10_pct" :> 51,
     "lp_burned" :> 0 @@ "total_supply" :> 10}

AllSixFlags ==
    /\ MintSet
    /\ FreezeSet
    /\ Get(features, "honeypot", FALSE)
    /\ HighTax
    /\ Get(features, "top10_pct", 0) > 50
    /\ LowBurn

\* C30: when fallback_scoring answers, its score before the clamp is a
\* multiple of 5 between -5 and 100 and negative only with all six red flags
\* set, the returned score is that value clamped, and the same input with one
\* more red flag set gets no higher score
C30_PreClampScore ==
    (HasResult /\ ByFallback)
    => LET raw == FallbackRawScore(features)
       IN  /\ raw % 5 = 0
           /\ raw \in -5..100
           /\ raw < 0 => AllSixFlags
           /\ Triple[1] = Max(0, Min(100, raw))
           /\ \A set \in FlagSetters :
                 fallback_scoring(set @@ features)[1] <= Triple[1]

\* every red flag set: 100 - 105 before the clamp, 0 returned
C30_Witness ==
    /\ HasResult /\ ret.api = "predict.fallback_scoring"
    /\ AllSixFlags
    /\ FallbackRawScore(features) = -5
    /\ Triple[1] = 0

====
